---- MODULE Spec2Model ----
(***************************************************************************)
(* Model of the WaterlooWorks navigator (job table / modal tracking,       *)
(* pagination hand-off, shortlist) and of the job-information rearranger's *)
(* enhanceModal pipeline guard, as a state machine over the live DOM.      *)
(*                                                                         *)
(* The page runs one handler at a time (keyboard events, mutation          *)
(* callbacks, timer callbacks), so every handler is one atomic action.     *)
(* Time is counted in units of 100 ms: every setTimeout of the source is a *)
(* record in `timers` with the number of units left; a timer fires when it *)
(* has none left, the oldest first, and the clock advances only when no    *)
(* timer is due.  User and site events may happen at any moment.           *)
(*                                                                         *)
(* The rearranger's functions on the view's fields (getLabelKey,           *)
(* parseFieldsFromModal, buildLocation, createPriorityBox and the hiding   *)
(* of the original fields) are modelled on texts, a text being the         *)
(* sequence of its characters, and are studied by specifications of their  *)
(* own (SpecLabel, SpecCompose, SpecExtract) that draw their inputs in the *)
(* initial state.                                                          *)
(***************************************************************************)
EXTENDS Integers, Sequences, FiniteSets, TLC

VARIABLES
  jobLinks,         \* navigator: cached row links, each identified by its row's job id
  currentJobIndex,  \* navigator: index into jobLinks (0-based as in the source), -1 = unset
  isClosingModal,   \* navigator: re-entrancy flag of closeModal
  page,             \* DOM: the listing shown, [rs, p] (its rows and page controls)
  modal,            \* DOM: the detail-view container div[data-v-70e7ded6-s]
  pendingOpen,      \* site: job whose detail view the site is about to insert (0 = none)
  pendingPage,      \* site: page number asked for by an activated page control (0 = none)
  timers,           \* pending setTimeout callbacks, in creation order
  notification,     \* text of the last toast shown by showNotification
  isEnhancing,      \* rearranger: in-progress guard
  settings,         \* rearranger: [loaded, enabled]
  shortlistedJobs,  \* navigator: in-memory shortlist Set, in insertion order
  store,            \* localStorage item 'waw-shortlisted-jobs': [kind, ids]
  loaded,           \* navigator: loadSettings has read the stored shortlist
  ev,               \* history: the handler that ran last and what it did
  tog,              \* history: consecutive toggles of one id, with the sets before them
  toggles,          \* shortlist operations so far (bounds the exploration)
  budget,           \* user / site events still allowed (bounds the exploration)
  labelText,        \* rearranger: the argument of getLabelKey
  key,              \* rearranger: what getLabelKey returned for labelText
  widgets,          \* DOM: the view's .tag__key-value-list widgets, in document order
  priorityKeys,     \* rearranger: settings.jobRearrangerPriorityKeys
  fields,           \* rearranger: parseFieldsFromModal's fields (with their elements)
  priorityItems,    \* rearranger: createPriorityBox's priorityItems
  display,          \* DOM: style.display of each widget's parent element
  section,          \* DOM: the child nodes of the 'Job Posting Information' panel
  rendered,         \* DOM: the value span built for each priority item
  styles,           \* DOM: the link / style elements the extension has injected
  themeId,          \* content script: settings.themeId
  calls,            \* history: the last injection call made with each element id
  configured,       \* storage: the saved newJobDaysThreshold, if any
  navSettings,      \* navigator: settings.newJobDaysThreshold (from: what it was read from)
  rows,             \* DOM: the listing rows: job id, links, badge, deadline text,
                    \*      waw-new-job class and shortlist indicators
  navUI,            \* DOM: the detail view's shortlist button, and the pending
                    \*      addModalNavigationUI timers
  stage             \* rearranger: "idle", "input" (before the call) or "done" (after it)

vars == << jobLinks, currentJobIndex, isClosingModal, page, modal, pendingOpen,
           pendingPage, timers, notification, isEnhancing, settings,
           shortlistedJobs, store, loaded, ev, tog, toggles, budget,
           labelText, key, widgets, priorityKeys, fields, priorityItems, display,
           section, rendered, styles, themeId, calls, configured,
           navSettings, rows, navUI, stage >>

navVars == << jobLinks, currentJobIndex, isClosingModal, page, modal, pendingOpen,
              pendingPage, timers, notification, isEnhancing, settings, ev, budget >>

shortVars == << shortlistedJobs, store, loaded, tog, toggles >>

styleVars == << styles, themeId, calls >>

rowVars == << configured, navSettings, rows, navUI >>

pageVars == << styleVars, rowVars >>

fieldVars == << labelText, key, widgets, priorityKeys, fields, priorityItems, display,
                section, rendered, stage, pageVars >>

\* fieldVars without the shortlist indicators and the shortlist button
quietVars == << labelText, key, widgets, priorityKeys, fields, priorityItems, display,
                section, rendered, stage, styleVars, configured, navSettings >>

----------------------------------------------------------------------------
(* Bounds *)

MaxJob == 4        \* job identifiers are 1..MaxJob
PageSize == 3      \* rows per listing page
MaxEvents == 3     \* user / site events per behaviour
MaxToggles == 4    \* shortlist operations per behaviour
MaxKeyToggles == 1 \* shortlist key presses per behaviour while navigation is followed

JobIds == 1..MaxJob

\* maxAttempts of the table-update poll
maxAttempts == 30

----------------------------------------------------------------------------
(* The site's DOM *)

\* The site's result sets: every posting, paged; a filtered set that fits one page
\* and is part of the first page of "all"; nothing.
ResultSets == {"all", "some", "none"}

NumPages(rs) == IF rs = "all" THEN (MaxJob + PageSize - 1) \div PageSize ELSE 1

\* the rows (job ids, top to bottom) of page p of a result set
PageRows(rs, p) ==
  IF rs = "all"
  THEN LET first == (p - 1) * PageSize + 1
           last  == IF p * PageSize < MaxJob THEN p * PageSize ELSE MaxJob
       IN  [i \in 1..(last - first + 1) |-> first + i - 1]
  ELSE IF rs = "some" THEN [i \in 1..(PageSize - 1) |-> i]
  ELSE <<>>

\* a listing: a page of a result set; the site renders the 'Go to previous page' /
\* 'Go to next page' anchors only when there is such a page
Listings == { l \in [rs : ResultSets, p : 1..MaxJob] : l.p <= NumPages(l.rs) }

Rows(l) == PageRows(l.rs, l.p)
HasPrev(l) == l.p > 1
HasNext(l) == l.p < NumPages(l.rs)

\* what the detail view holds once its content has loaded
ContentKinds == {"full", "noItems", "noFields", "noAnchor", "otherTab"}

NoModal == [open |-> FALSE, job |-> 0, ready |-> FALSE, kind |-> "none",
            enhanced |-> "unset", boxes |-> 0, hidden |-> FALSE, runs |-> 0,
            aborted |-> FALSE]

\* (runs and aborted are history: the passes completed on the container, and whether
\* a pass on it ended at the missing 'Job Posting Information' panel)
\* a freshly inserted container for job id: content not rendered yet, no dataset flag
FreshModal(id) == [open |-> TRUE, job |-> id, ready |-> FALSE, kind |-> "none",
                   enhanced |-> "unset", boxes |-> 0, hidden |-> FALSE, runs |-> 0,
            aborted |-> FALSE]

SeqToSet(s) == { s[i] : i \in 1..Len(s) }

\* arr[i] of the source (0-based); 0 stands for undefined
At(arr, i) == IF 0 <= i /\ i < Len(arr) THEN arr[i + 1] ELSE 0

----------------------------------------------------------------------------
(* Timers *)

\* req (history) is the event budget at the navigation request a poll stems from: of
\* two polls the one with the smaller req was requested later
Timer(kind, due) == [kind |-> kind, due |-> due, pos |-> "none", link |-> 0,
                     snap |-> {}, att |-> 0, ok |-> TRUE, req |-> 0]

\* index of the timer that fires next: the oldest among those that are due
DueIndex ==
  IF \E i \in 1..Len(timers) : timers[i].due = 0
  THEN CHOOSE i \in 1..Len(timers) :
         /\ timers[i].due = 0
         /\ \A j \in 1..(i - 1) : timers[j].due # 0
  ELSE 0

Without(tm, i) == SubSeq(tm, 1, i - 1) \o SubSeq(tm, i + 1, Len(tm))

\* the timers left when the due one is taken to run
Rest == Without(timers, DueIndex)

Due(kind) == DueIndex # 0 /\ timers[DueIndex].kind = kind

\* no timer is due: the instant between two timer expiries at which user and site
\* events are taken to happen
Idle == DueIndex = 0

RECURSIVE DropKind(_, _)
\* clearTimeout of the (single) pending timer of a kind
DropKind(tm, kind) ==
  IF tm = <<>> THEN <<>>
  ELSE IF Head(tm).kind = kind THEN DropKind(Tail(tm), kind)
  ELSE <<Head(tm)>> \o DropKind(Tail(tm), kind)

\* The rearranger's observer callback closes over the inserted container; once the
\* site removes that container its content stays as it was at removal.  (History: a
\* run armed by a settings change on a processed container no longer concerns that
\* container once it is removed.)
Detach(tm, m) ==
  [i \in 1..Len(tm) |->
     IF tm[i].kind = "obsEnhance" /\ tm[i].pos = "live"
     THEN [tm[i] EXCEPT !.pos = IF m.ready THEN "ready" ELSE "notready"]
     ELSE IF tm[i].kind = "lateEnhance" /\ tm[i].pos = "initProcessed"
     THEN [tm[i] EXCEPT !.pos = "init"]
     ELSE tm[i]]

\* what a handler did: its name, the requested delta, the branch it took, the link it
\* activated or captured, and whether the detail view open at the request was closed
Ev(op, delta, br, link, ok) ==
  [op |-> op, delta |-> delta, br |-> br, link |-> link, ok |-> ok]

----------------------------------------------------------------------------
(* Navigator: job table *)

\* getAllJobLinks: the row links now in the document
getAllJobLinks == Rows(page)

\* enhanceJobTable re-reads the links, then removes and re-appends the row
\* indicators; those insertions are child-list mutations under the observed tbody,
\* so the table observer's debounce timer is armed again whenever rows exist.
TableObserved(tm) ==
  IF Rows(page) # <<>>
  THEN Append(DropKind(tm, "tableDebounce"), Timer("tableDebounce", 2))
  ELSE tm

\* position (0-based) of the first link whose row carries job id, or -1
FoundIndex(links, id) ==
  IF \E i \in 1..Len(links) : links[i] = id
  THEN (CHOOSE i \in 1..Len(links) :
          links[i] = id /\ \A j \in 1..(i - 1) : links[j] # id) - 1
  ELSE -1

\* getCurrentModalJobId: the id in the modal header, else the id of the row at the
\* cached index; 0 stands for null
getCurrentModalJobId(links, idx) ==
  IF ~modal.open THEN 0
  ELSE IF modal.ready THEN modal.job
  ELSE IF idx >= 0 /\ At(links, idx) # 0 THEN At(links, idx)
  ELSE 0

\* the index as it would be if navigateJob relied on its cached index alone
DetectIndexCached(links, idx, delta) ==
  IF idx < 0 THEN (IF delta > 0 THEN 0 ELSE Len(links) - 1) ELSE idx

\* the index navigateJob works from after re-deriving it from the open view
DetectIndex(links, idx, delta) ==
  LET modalJobId == getCurrentModalJobId(links, idx)
      foundIndex == FoundIndex(links, modalJobId)
      start      == IF delta > 0 THEN 0 ELSE Len(links) - 1
  IN  IF modalJobId # 0
      THEN IF foundIndex >= 0 THEN foundIndex
           ELSE IF idx < 0 THEN start ELSE idx
      ELSE IF idx < 0 THEN start ELSE idx

\* closeModal as it would be without its re-entrancy guard
closeModalUnguarded(flag, m, tm) ==
  [flag   |-> TRUE,
   modal  |-> IF m.open THEN NoModal ELSE m,
   timers |-> Append(IF m.open THEN Detach(tm, m) ELSE tm, Timer("closeReset", 1))]

\* closeModal as it would be if it did not arm the timer that clears its flag
closeModalNoReset(flag, m, tm) ==
  IF flag THEN [flag |-> flag, modal |-> m, timers |-> tm]
  ELSE [flag   |-> TRUE,
        modal  |-> IF m.open THEN NoModal ELSE m,
        timers |-> IF m.open THEN Detach(tm, m) ELSE tm]

\* closeModal: guarded by isClosingModal; clicking the close button makes the site
\* remove the container; the flag is reset 100 ms later
closeModal(flag, m, tm) ==
  IF flag THEN [flag |-> flag, modal |-> m, timers |-> tm]
  ELSE [flag   |-> TRUE,
        modal  |-> IF m.open THEN NoModal ELSE m,
        timers |-> Append(IF m.open THEN Detach(tm, m) ELSE tm, Timer("closeReset", 1))]

\* the index as it would be if navigation wrapped around at the ends
ClampIndexWraps(newIndex, len) ==
  IF newIndex < 0 THEN len - 1
  ELSE IF newIndex >= len THEN 0
  ELSE newIndex

\* the index navigateJob settles on when no page control takes the request over
ClampIndex(newIndex, len) ==
  IF newIndex < 0 THEN 0
  ELSE IF newIndex >= len THEN len - 1
  ELSE newIndex

\* the links navigateJob works on: refreshed only when the cache is empty
NavLinks == IF Len(jobLinks) = 0 THEN getAllJobLinks ELSE jobLinks

\* the poll as it would be if the attempt test let one more step through
KeepPollingOffByOne(attempts) == attempts <= maxAttempts

\* checkForUpdate's test for arming another poll step
KeepPolling(attempts) == attempts < maxAttempts

\* hasChanged of checkForUpdate
hasChanged(newJobIds, currentJobIds) ==
  newJobIds # {} /\ ~(\A id \in newJobIds : id \in currentJobIds)

----------------------------------------------------------------------------
(* Rearranger: enhanceModal *)

\* enhanceModal as it would be without the removal of the panel injected earlier
enhanceModalKeepsOldBox(m, enh, st, thr) ==
  LET skip == [modal |-> m, isEnhancing |-> enh, entered |-> FALSE]
  IN  IF ~st.loaded \/ ~st.enabled THEN skip
      ELSE IF enh THEN skip
      ELSE IF ~m.open THEN skip
      ELSE IF m.enhanced = "true" THEN skip
      ELSE IF m.ready /\ m.kind = "otherTab" THEN skip
      ELSE IF ~m.ready \/ m.kind = "noFields"
        THEN [modal |-> m, isEnhancing |-> FALSE, entered |-> TRUE]
      ELSE IF m.kind = "noAnchor"
        THEN [modal |-> [m EXCEPT !.aborted = TRUE], isEnhancing |-> FALSE,
              entered |-> TRUE]
      ELSE IF thr
        THEN [modal |-> m, isEnhancing |-> FALSE, entered |-> TRUE]
      ELSE [modal |-> [m EXCEPT !.boxes = IF m.kind = "noItems" THEN m.boxes
                                          ELSE m.boxes + 1,
                                !.hidden = TRUE,
                                !.enhanced = "true",
                                !.runs = m.runs + 1],
            isEnhancing |-> FALSE, entered |-> TRUE]

\* enhanceModal as it would be if the return for 'no fields found' left the
\* in-progress flag set
enhanceModalLeavesFlag(m, enh, st, thr) ==
  LET skip == [modal |-> m, isEnhancing |-> enh, entered |-> FALSE]
  IN  IF ~st.loaded \/ ~st.enabled THEN skip
      ELSE IF enh THEN skip
      ELSE IF ~m.open THEN skip
      ELSE IF m.enhanced = "true" THEN skip
      ELSE IF m.ready /\ m.kind = "otherTab" THEN skip
      ELSE IF ~m.ready \/ m.kind = "noFields"
        THEN [modal |-> m, isEnhancing |-> TRUE, entered |-> TRUE]
      ELSE IF m.kind = "noAnchor"
        THEN [modal |-> [m EXCEPT !.aborted = TRUE], isEnhancing |-> FALSE,
              entered |-> TRUE]
      ELSE
        LET removed == [m EXCEPT !.boxes = IF m.boxes > 0 THEN m.boxes - 1 ELSE 0]
        IN  IF thr
            THEN [modal |-> removed, isEnhancing |-> FALSE, entered |-> TRUE]
            ELSE [modal |-> [removed EXCEPT
                               !.boxes = IF m.kind = "noItems" THEN removed.boxes
                                         ELSE removed.boxes + 1,
                               !.hidden = TRUE,
                               !.enhanced = "true",
                               !.runs = m.runs + 1],
                  isEnhancing |-> FALSE, entered |-> TRUE]

\* enhanceModal as it would be without the check of the processed flag
enhanceModalIgnoresFlag(m, enh, st, thr) ==
  LET skip == [modal |-> m, isEnhancing |-> enh, entered |-> FALSE]
  IN  IF ~st.loaded \/ ~st.enabled THEN skip
      ELSE IF enh THEN skip
      ELSE IF ~m.open THEN skip
      ELSE IF m.ready /\ m.kind = "otherTab" THEN skip
      ELSE IF ~m.ready \/ m.kind = "noFields"
        THEN [modal |-> m, isEnhancing |-> FALSE, entered |-> TRUE]
      ELSE IF m.kind = "noAnchor"
        THEN [modal |-> [m EXCEPT !.aborted = TRUE], isEnhancing |-> FALSE,
              entered |-> TRUE]
      ELSE
        LET removed == [m EXCEPT !.boxes = IF m.boxes > 0 THEN m.boxes - 1 ELSE 0]
        IN  IF thr
            THEN [modal |-> removed, isEnhancing |-> FALSE, entered |-> TRUE]
            ELSE [modal |-> [removed EXCEPT
                               !.boxes = IF m.kind = "noItems" THEN removed.boxes
                                         ELSE removed.boxes + 1,
                               !.hidden = TRUE,
                               !.enhanced = "true",
                               !.runs = m.runs + 1],
                  isEnhancing |-> FALSE, entered |-> TRUE]

\* The pipeline run on container m with in-progress flag enh and settings st; thr says
\* whether createPriorityBox throws.  Gives the container, the flag afterwards, and
\* entered: whether the parse/render section was entered.  The container's runs
\* counts the runs that went through extraction, composition and injection.
enhanceModal(m, enh, st, thr) ==
  LET skip == [modal |-> m, isEnhancing |-> enh, entered |-> FALSE]
  IN  IF ~st.loaded \/ ~st.enabled THEN skip
      ELSE IF enh THEN skip
      ELSE IF ~m.open THEN skip
      ELSE IF m.enhanced = "true" THEN skip
      ELSE IF m.ready /\ m.kind = "otherTab" THEN skip
      ELSE IF ~m.ready \/ m.kind = "noFields"
        THEN [modal |-> m, isEnhancing |-> FALSE, entered |-> TRUE]
      ELSE IF m.kind = "noAnchor"
        THEN [modal |-> [m EXCEPT !.aborted = TRUE], isEnhancing |-> FALSE,
              entered |-> TRUE]
      ELSE
        LET removed == [m EXCEPT !.boxes = IF m.boxes > 0 THEN m.boxes - 1 ELSE 0]
        IN  IF thr
            THEN [modal |-> removed, isEnhancing |-> FALSE, entered |-> TRUE]
            ELSE [modal |-> [removed EXCEPT
                               !.boxes = IF m.kind = "noItems" THEN removed.boxes
                                         ELSE removed.boxes + 1,
                               !.hidden = TRUE,
                               !.enhanced = "true",
                               !.runs = m.runs + 1],
                  isEnhancing |-> FALSE, entered |-> TRUE]

----------------------------------------------------------------------------
(* Navigator: shortlist.  A JavaScript Set keeps insertion order, and the store holds
   JSON.stringify(Array.from(set)): both are sequences without repetition. *)

\* set.has(id)
Has(set, id) == \E i \in 1..Len(set) : set[i] = id

\* set.delete(id)
Delete(set, id) == SelectSeq(set, LAMBDA x : x # id)

\* set.add(id)
Add(set, id) == IF Has(set, id) THEN set ELSE Append(set, id)

RECURSIVE Dedup(_)
\* new Set(array): the first occurrence of each element, in order
Dedup(arr) ==
  IF arr = <<>> THEN <<>>
  ELSE LET init == Dedup(SubSeq(arr, 1, Len(arr) - 1))
       IN  Add(init, arr[Len(arr)])

\* the toggle as it would be if it never removed an identifier
ToggledAddsOnly(set, id) == Add(set, id)

\* the in-memory set after toggleShortlistJob(id)
Toggled(set, id) == IF Has(set, id) THEN Delete(set, id) ELSE Add(set, id)

\* saveShortlist: setItem may throw (quota, storage disabled); the error is caught
\* and the store keeps its old value
saveShortlist(set, old, fails) ==
  IF fails THEN old ELSE [kind |-> "json", ids |-> set]

\* the ids a stored value lists (none when the item is absent or unparseable)
StoredIds(st) == IF st.kind = "json" THEN SeqToSet(st.ids) ELSE {}

NoToggle == [id |-> 0, n |-> 0, mem |-> {}, stored |-> {}, wrote |-> FALSE]

\* the read as it would be if a failed read emptied the in-memory set
loadShortlistResets ==
  /\ UNCHANGED << navVars, fieldVars >>
  /\ ~loaded
  /\ loaded' = TRUE
  /\ shortlistedJobs' = IF store.kind = "json" THEN Dedup(store.ids) ELSE <<>>
  /\ tog' = NoToggle
  /\ UNCHANGED << store, toggles >>

\* the read as it would be if loadSettings were run again after initialization
loadShortlistAgain ==
  /\ UNCHANGED << navVars, fieldVars >>
  /\ loaded' = TRUE
  /\ shortlistedJobs' = IF store.kind = "json" THEN Dedup(store.ids) ELSE shortlistedJobs
  /\ tog' = NoToggle
  /\ UNCHANGED << store, toggles >>

\* the part of loadSettings that reads the stored shortlist: an absent item leaves
\* the set alone, an unparseable one throws and is caught
loadShortlist ==
  /\ UNCHANGED << navVars, fieldVars >>
  /\ ~loaded
  /\ loaded' = TRUE
  /\ shortlistedJobs' = IF store.kind = "json" THEN Dedup(store.ids) ELSE shortlistedJobs
  /\ tog' = NoToggle
  /\ UNCHANGED << store, toggles >>

\* the star a shortlist indicator or the shortlist button shows for job id
Star(set, id) == IF Has(set, id) THEN "filled" ELSE "empty"

\* toggleShortlistJob's forEach over .waw-shortlist-indicator[data-job-id=id], on the
\* indicators of one row
updateIndicators(row, id, set) ==
  [row EXCEPT !.indicators =
     [ k \in DOMAIN row.indicators |->
         IF row.indicators[k].jobId = id
         THEN [row.indicators[k] EXCEPT !.star = Star(set, id)]
         ELSE row.indicators[k] ]]

\* updateModalShortlistIndicator: no button or no job id, nothing is done
updateModalShortlistIndicator(ui, set) ==
  IF ui.btn = "none" \/ getCurrentModalJobId(jobLinks, currentJobIndex) = 0
  THEN ui
  ELSE [ui EXCEPT !.btn = Star(set, getCurrentModalJobId(jobLinks, currentJobIndex))]

\* toggleShortlistJob(id); window.WAWNavigator exports it as soon as the script has
\* run, so it can be called before loadSettings has read the store
toggleShortlistJob(id, fails) ==
  /\ UNCHANGED << navVars, quietVars >>
  /\ toggles < MaxToggles
  /\ toggles' = toggles + 1
  /\ shortlistedJobs' = Toggled(shortlistedJobs, id)
  /\ rows' = [ i \in DOMAIN rows |-> updateIndicators(rows[i], id, shortlistedJobs') ]
  /\ navUI' = updateModalShortlistIndicator(navUI, shortlistedJobs')
  /\ store' = saveShortlist(shortlistedJobs', store, fails)
  /\ tog' = IF tog.id = id /\ tog.n = 1
            THEN [tog EXCEPT !.n = 2, !.wrote = ~fails]
            ELSE [id |-> id, n |-> 1, mem |-> SeqToSet(shortlistedJobs),
                  stored |-> StoredIds(store), wrote |-> ~fails]
  /\ UNCHANGED loaded

----------------------------------------------------------------------------
(* Initial state: both scripts have initialized (settings loaded, stored shortlist
   read, first enhanceJobTable done and the table observer attached).  No detail
   view is open yet; the user may just have activated a row link. *)

\* DEFAULT_SETTINGS.newJobDaysThreshold
DefaultThreshold == 7

\* no shortlist button in the document, no addModalNavigationUI timer pending
NoUI == [btn |-> "none", pending |-> 0]

\* a setting that was never saved, and one saved as t
Unset == [set |-> FALSE, value |-> 0]

Saved(t) == [set |-> TRUE, value |-> t]

\* the listing's rows are not looked into, the threshold is the default
InitRowsIdle ==
  /\ configured = Unset
  /\ navSettings = [newJobDaysThreshold |-> DefaultThreshold, from |-> Unset]
  /\ rows = <<>>
  /\ navUI = NoUI

\* no stylesheet injected, the default theme
InitStylesIdle ==
  /\ styles = <<>>
  /\ themeId = "azure-light"
  /\ calls = [ id \in { "azure-theme-css", "azure-layout-css", "azure-extra" } |->
                [fn |-> "none", arg |-> ""] ]

\* while the navigator is studied the view's fields are not looked into
InitFieldsIdle ==
  /\ labelText = <<>>
  /\ key = "null"
  /\ widgets = <<>>
  /\ priorityKeys = <<>>
  /\ fields = <<>>
  /\ priorityItems = <<>>
  /\ display = <<>>
  /\ section = <<>>
  /\ rendered = <<>>
  /\ stage = "idle"

InitNav ==
  /\ page \in Listings
  /\ jobLinks = Rows(page)
  /\ currentJobIndex = -1
  /\ isClosingModal = FALSE
  /\ modal = NoModal
  /\ pendingOpen \in {0} \cup SeqToSet(Rows(page))
  /\ pendingPage = 0
  /\ timers = <<>>
  /\ notification = "none"
  /\ isEnhancing = FALSE
  /\ settings \in [loaded : {TRUE}, enabled : BOOLEAN, observing : BOOLEAN]
  /\ settings.observing = settings.enabled
  /\ ev = Ev("init", 0, "", 0, TRUE)
  /\ budget = MaxEvents
  /\ InitFieldsIdle
  /\ InitStylesIdle
  /\ InitRowsIdle

----------------------------------------------------------------------------
(* Navigator: user-driven handlers *)

\* navigateJob(delta), reached from the modal's keyboard handler and nav buttons
navigateJob(delta) ==
  /\ UNCHANGED << shortVars, fieldVars >>
  /\ Idle
  /\ budget > 0
  /\ modal.open
  /\ budget' = budget - 1
  /\ UNCHANGED << page, pendingOpen, pendingPage, isEnhancing, settings >>
  /\ LET links    == NavLinks
         cur      == DetectIndex(links, currentJobIndex, delta)
         newIndex == cur + delta
         c        == closeModal(isClosingModal, modal, timers)
         clamped  == ClampIndex(newIndex, Len(links))
     IN  /\ jobLinks' = links
         /\ IF Len(links) = 0
            THEN /\ notification' = "No jobs found on this page"
                 /\ ev' = Ev("navigateJob", delta, "nojobs", 0, TRUE)
                 /\ UNCHANGED << currentJobIndex, isClosingModal, modal, timers >>
            ELSE IF newIndex < 0 /\ HasPrev(page)
            THEN /\ currentJobIndex' = cur
                 /\ isClosingModal' = c.flag
                 /\ modal' = c.modal
                 /\ timers' = Append(c.timers,
                       [Timer("pagStart", 2) EXCEPT !.pos = "last", !.ok = ~c.modal.open,
                                                  !.link = page.p - 1, !.req = budget])
                 /\ ev' = Ev("navigateJob", delta, "page", 0, ~c.modal.open)
                 /\ UNCHANGED notification
            ELSE IF newIndex >= Len(links) /\ HasNext(page)
            THEN /\ currentJobIndex' = cur
                 /\ isClosingModal' = c.flag
                 /\ modal' = c.modal
                 /\ timers' = Append(c.timers,
                       [Timer("pagStart", 2) EXCEPT !.pos = "first", !.ok = ~c.modal.open,
                                                  !.link = page.p + 1, !.req = budget])
                 /\ ev' = Ev("navigateJob", delta, "page", 0, ~c.modal.open)
                 /\ UNCHANGED notification
            ELSE /\ currentJobIndex' = clamped
                 /\ notification' = IF newIndex < 0 THEN "First job (no previous page)"
                                    ELSE IF newIndex >= Len(links)
                                         THEN "Last job (no next page)"
                                    ELSE notification
                 /\ isClosingModal' = c.flag
                 /\ modal' = c.modal
                 /\ timers' = Append(c.timers,
                       [Timer("navClick", 1) EXCEPT !.link = At(links, clamped),
                                                    !.ok = ~c.modal.open])
                 /\ ev' = Ev("navigateJob", delta,
                             IF newIndex = clamped THEN "normal" ELSE "clamp",
                             At(links, clamped), ~c.modal.open)

\* selectAndOpenJob(delta), reached from the keyboard handler while no modal is open
selectAndOpenJob(delta) ==
  /\ UNCHANGED << shortVars, fieldVars >>
  /\ Idle
  /\ budget > 0
  /\ ~modal.open
  /\ Len(jobLinks) > 0
  /\ budget' = budget - 1
  /\ LET moved   == IF currentJobIndex < 0
                    THEN (IF delta > 0 THEN 0 ELSE Len(jobLinks) - 1)
                    ELSE currentJobIndex + delta
         low     == IF moved < 0 THEN 0 ELSE moved
         clamped == IF low >= Len(jobLinks) THEN Len(jobLinks) - 1 ELSE low
     IN  /\ currentJobIndex' = clamped
         /\ pendingOpen' = At(jobLinks, clamped)
         /\ ev' = Ev("selectAndOpenJob", delta, "", At(jobLinks, clamped), TRUE)
  /\ UNCHANGED << jobLinks, isClosingModal, page, modal, pendingPage, timers,
                  notification, isEnhancing, settings >>

\* a trusted Escape key press while the modal is open
pressEscape ==
  /\ UNCHANGED << shortVars, fieldVars >>
  /\ Idle
  /\ budget > 0
  /\ modal.open
  /\ budget' = budget - 1
  /\ LET c == closeModal(isClosingModal, modal, timers)
     IN  /\ isClosingModal' = c.flag
         /\ modal' = c.modal
         /\ timers' = c.timers
         /\ ev' = Ev("closeModal", 0, "", 0, ~c.modal.open)
  /\ UNCHANGED << jobLinks, currentJobIndex, page, pendingOpen, pendingPage,
                  notification, isEnhancing, settings >>

\* an Escape keydown dispatched by a script (isTrusted false) while the modal is
\* open: the handler returns before closeModal
untrustedEscape ==
  /\ UNCHANGED << shortVars, fieldVars >>
  /\ Idle
  /\ budget > 0
  /\ modal.open
  /\ budget' = budget - 1
  /\ ev' = Ev("untrustedEscape", 0, "", 0, TRUE)
  /\ UNCHANGED << jobLinks, currentJobIndex, isClosingModal, page, modal, pendingOpen,
                  pendingPage, timers, notification, isEnhancing, settings >>

----------------------------------------------------------------------------
(* Navigator: timer callbacks *)

\* closeModal's reset timer
closeReset ==
  /\ UNCHANGED << shortVars, fieldVars >>
  /\ Due("closeReset")
  /\ isClosingModal' = FALSE
  /\ timers' = Rest
  /\ ev' = Ev("closeReset", 0, "", 0, TRUE)
  /\ UNCHANGED << jobLinks, currentJobIndex, page, modal, pendingOpen, pendingPage,
                  notification, isEnhancing, settings, budget >>

\* navigateJob's 100 ms timer: click the captured link, arm the rearranger trigger
navClick ==
  /\ UNCHANGED << shortVars, fieldVars >>
  /\ Due("navClick")
  /\ pendingOpen' = timers[DueIndex].link
  /\ timers' = Append(Rest, Timer("navEnhance", 3))
  /\ ev' = Ev("navClick", 0, "", timers[DueIndex].link, timers[DueIndex].ok)
  /\ UNCHANGED << jobLinks, currentJobIndex, isClosingModal, page, modal, pendingPage,
                  notification, isEnhancing, settings, budget >>

\* the 300 ms timer of navigateJob and of the pagination poll: reset the processed
\* flag of whatever container is open and call the rearranger
navEnhance ==
  /\ UNCHANGED << shortVars, fieldVars >>
  /\ Due("navEnhance")
  /\ timers' = Rest
  /\ \E thr \in BOOLEAN :
       LET reset == IF modal.open THEN [modal EXCEPT !.enhanced = "false"] ELSE modal
           r     == enhanceModal(reset, isEnhancing, settings, thr)
       IN  /\ modal' = r.modal
           /\ isEnhancing' = r.isEnhancing
           /\ ev' = Ev("navEnhance", 0,
                       IF reset.enhanced = "true" THEN "processed"
                       ELSE IF r.entered THEN "entered" ELSE "skipped", 0, TRUE)
  /\ UNCHANGED << jobLinks, currentJobIndex, isClosingModal, page, pendingOpen,
                  pendingPage, notification, settings, budget >>

\* navigateJob's 200 ms pagination timer: waitForTableUpdateThenNavigate(position)
\* snapshots the cached links' ids and arms the poll, then the page control is clicked
pagStart ==
  /\ UNCHANGED << shortVars, fieldVars >>
  /\ Due("pagStart")
  /\ timers' = Append(Rest, [Timer("poll", 1) EXCEPT !.pos = timers[DueIndex].pos,
                                                     !.snap = SeqToSet(jobLinks),
                                                     !.ok = timers[DueIndex].ok,
                                                     !.req = timers[DueIndex].req])
  /\ pendingPage' = timers[DueIndex].link
  /\ ev' = Ev("pagStart", 0, timers[DueIndex].pos, 0, timers[DueIndex].ok)
  /\ UNCHANGED << jobLinks, currentJobIndex, isClosingModal, page, modal, pendingOpen,
                  notification, isEnhancing, settings, budget >>

\* checkForUpdate: one poll step
checkForUpdate ==
  /\ UNCHANGED << shortVars, fieldVars >>
  /\ Due("poll")
  /\ LET t         == timers[DueIndex]
         attempts  == t.att + 1
         newJobIds == SeqToSet(getAllJobLinks)
     IN  /\ jobLinks' = getAllJobLinks
         /\ IF hasChanged(newJobIds, t.snap)
            THEN /\ timers' = Append(Rest, [Timer("pollNav", 3) EXCEPT
                                               !.pos = t.pos, !.ok = t.ok, !.req = t.req])
                 /\ ev' = Ev("checkForUpdate", attempts, "changed", 0, TRUE)
            ELSE IF KeepPolling(attempts)
            THEN /\ timers' = Append(Rest, [t EXCEPT !.due = 1, !.att = attempts])
                 /\ ev' = Ev("checkForUpdate", attempts, "again", 0, TRUE)
            ELSE /\ timers' = Rest
                 /\ ev' = Ev("checkForUpdate", attempts, "timeout", 0, TRUE)
  /\ UNCHANGED << currentJobIndex, isClosingModal, page, modal, pendingOpen,
                  pendingPage, notification, isEnhancing, settings, budget >>

\* the poll's 300 ms timer after a detected change: refresh, select per the recorded
\* position, click that row's link
pollNavigate ==
  /\ UNCHANGED << shortVars, fieldVars >>
  /\ Due("pollNav")
  /\ LET t     == timers[DueIndex]
         links == getAllJobLinks
         index == IF t.pos = "first" THEN 0 ELSE Len(links) - 1
     IN  /\ jobLinks' = links
         /\ currentJobIndex' = index
         /\ IF At(links, index) # 0
            THEN /\ pendingOpen' = At(links, index)
                 /\ timers' = Append(TableObserved(Rest), Timer("navEnhance", 3))
            ELSE /\ timers' = TableObserved(Rest)
                 /\ UNCHANGED pendingOpen
         /\ ev' = Ev("pollNavigate", 0, t.pos, At(links, index), TRUE)
  /\ UNCHANGED << isClosingModal, page, modal, pendingPage, notification,
                  isEnhancing, settings, budget >>

\* the debounced callback as it would be if enhanceJobTable redrew the row
\* indicators from the cached links without re-reading them
tableRefreshKeepsLinks ==
  /\ UNCHANGED << shortVars, fieldVars >>
  /\ Due("tableDebounce")
  /\ timers' = TableObserved(Rest)
  /\ ev' = Ev("enhanceJobTable", 0, "", 0, TRUE)
  /\ UNCHANGED << jobLinks, currentJobIndex, isClosingModal, page, modal, pendingOpen,
                  pendingPage, notification, isEnhancing, settings, budget >>

\* the table observer's debounced callback: enhanceJobTable
tableRefresh ==
  /\ UNCHANGED << shortVars, fieldVars >>
  /\ Due("tableDebounce")
  /\ jobLinks' = getAllJobLinks
  /\ timers' = TableObserved(Rest)
  /\ ev' = Ev("enhanceJobTable", 0, "", 0, TRUE)
  /\ UNCHANGED << currentJobIndex, isClosingModal, page, modal, pendingOpen,
                  pendingPage, notification, isEnhancing, settings, budget >>

----------------------------------------------------------------------------
(* Rearranger: observer and timer callbacks *)

\* the modal observer's 100 ms timer: enhance if the captured container has its
\* panels, else try once more 200 ms later
obsEnhance ==
  /\ UNCHANGED << shortVars, fieldVars >>
  /\ Due("obsEnhance")
  /\ LET t     == timers[DueIndex]
         ready == IF t.pos = "live" THEN modal.ready ELSE t.pos = "ready"
     IN  IF ready
         THEN /\ timers' = Rest
              /\ \E thr \in BOOLEAN :
                   LET r == enhanceModal(modal, isEnhancing, settings, thr)
                   IN  /\ modal' = r.modal
                       /\ isEnhancing' = r.isEnhancing
                       /\ ev' = Ev("obsEnhance", 0,
                                   IF modal.enhanced = "true" THEN "processed"
                                   ELSE IF r.entered THEN "entered" ELSE "skipped",
                                   0, TRUE)
         ELSE /\ timers' = Append(Rest, Timer("lateEnhance", 2))
              /\ ev' = Ev("obsEnhance", 0, "retry", 0, TRUE)
              /\ UNCHANGED << modal, isEnhancing >>
  /\ UNCHANGED << jobLinks, currentJobIndex, isClosingModal, page, pendingOpen,
                  pendingPage, notification, settings, budget >>

\* setTimeout(enhanceModal, ...) of the observer's retry and of initialize
lateEnhance ==
  /\ UNCHANGED << shortVars, fieldVars >>
  /\ Due("lateEnhance")
  /\ timers' = Rest
  /\ \E thr \in BOOLEAN :
       LET r == enhanceModal(modal, isEnhancing, settings, thr)
       IN  /\ modal' = r.modal
           /\ isEnhancing' = r.isEnhancing
           /\ ev' = Ev("lateEnhance", 0,
                       IF modal.enhanced = "true" THEN "processed"
                       ELSE IF r.entered THEN "entered" ELSE "skipped", 0, TRUE)
  /\ UNCHANGED << jobLinks, currentJobIndex, isClosingModal, page, pendingOpen,
                  pendingPage, notification, settings, budget >>

\* initialize, called again by the content script when a rearranger setting changes:
\* the enabled flag, or (enabled as it was) the priority keys or the standard order
rearrangerInit(enabled) ==
  /\ UNCHANGED << shortVars, fieldVars >>
  /\ Idle
  /\ budget > 0
  /\ budget' = budget - 1
  /\ settings' = [loaded |-> TRUE, enabled |-> enabled,
                  observing |-> settings.observing \/ enabled]
  /\ timers' = IF enabled /\ modal.open
               THEN Append(timers, [Timer("lateEnhance", 5) EXCEPT
                                      !.pos = IF modal.enhanced = "true"
                                              THEN "initProcessed" ELSE "init"])
               ELSE timers
  /\ ev' = Ev("initialize", 0, "", 0, TRUE)
  /\ UNCHANGED << jobLinks, currentJobIndex, isClosingModal, page, modal, pendingOpen,
                  pendingPage, notification, isEnhancing >>

----------------------------------------------------------------------------
(* The site and the clock *)

\* the site inserts the detail container of the job whose link was activated (a
\* container still open is replaced); the rearranger's observer sees the insertion
siteOpenModal ==
  /\ UNCHANGED << shortVars, fieldVars >>
  /\ Idle
  /\ pendingOpen # 0
  /\ pendingOpen' = 0
  /\ modal' = FreshModal(pendingOpen)
  /\ timers' = LET tm == IF modal.open THEN Detach(timers, modal) ELSE timers
               IN  IF settings.observing
                   THEN Append(tm, [Timer("obsEnhance", 1) EXCEPT !.pos = "live"])
                   ELSE tm
  /\ ev' = Ev("siteOpenModal", 0, "", pendingOpen, TRUE)
  /\ UNCHANGED << jobLinks, currentJobIndex, isClosingModal, page, pendingPage,
                  notification, isEnhancing, settings, budget >>

\* the site renders the posting into the open container
siteLoadContent(kind) ==
  /\ UNCHANGED << shortVars, fieldVars >>
  /\ Idle
  /\ modal.open
  /\ ~modal.ready
  /\ modal' = [modal EXCEPT !.ready = TRUE, !.kind = kind]
  /\ ev' = Ev("siteLoadContent", 0, kind, 0, TRUE)
  /\ UNCHANGED << jobLinks, currentJobIndex, isClosingModal, page, pendingOpen,
                  pendingPage, timers, notification, isEnhancing, settings, budget >>

\* the page asked for through a page control arrives: the site re-renders the rows
\* and the table observer arms its debounce
sitePageLoad ==
  /\ UNCHANGED << shortVars, fieldVars >>
  /\ Idle
  /\ pendingPage # 0
  /\ pendingPage' = 0
  /\ page' = IF pendingPage <= NumPages(page.rs)
             THEN [page EXCEPT !.p = pendingPage] ELSE page
  /\ timers' = Append(DropKind(timers, "tableDebounce"), Timer("tableDebounce", 2))
  /\ ev' = Ev("sitePageLoad", 0, "", 0, TRUE)
  /\ UNCHANGED << jobLinks, currentJobIndex, isClosingModal, modal, pendingOpen,
                  notification, isEnhancing, settings, budget >>

\* the user changes the filter or the page: another listing is rendered
tableMutate(listing) ==
  /\ UNCHANGED << shortVars, fieldVars >>
  /\ Idle
  /\ budget > 0
  /\ listing # page
  /\ budget' = budget - 1
  /\ page' = listing
  /\ timers' = Append(DropKind(timers, "tableDebounce"), Timer("tableDebounce", 2))
  /\ ev' = Ev("tableMutate", 0, "", 0, TRUE)
  /\ UNCHANGED << jobLinks, currentJobIndex, isClosingModal, modal, pendingOpen,
                  pendingPage, notification, isEnhancing, settings >>

\* the user activates a row link directly
clickRow(id) ==
  /\ UNCHANGED << shortVars, fieldVars >>
  /\ Idle
  /\ budget > 0
  /\ ~modal.open
  /\ id \in SeqToSet(Rows(page))
  /\ budget' = budget - 1
  /\ pendingOpen' = id
  /\ ev' = Ev("clickRow", 0, "", id, TRUE)
  /\ UNCHANGED << jobLinks, currentJobIndex, isClosingModal, page, modal, pendingPage,
                  timers, notification, isEnhancing, settings >>

\* 100 ms pass; only when no timer is due
tick ==
  /\ UNCHANGED << shortVars, fieldVars >>
  /\ timers # <<>>
  /\ Idle
  /\ timers' = [i \in 1..Len(timers) |-> [timers[i] EXCEPT !.due = @ - 1]]
  /\ ev' = Ev("tick", 0, "", 0, TRUE)
  /\ UNCHANGED << jobLinks, currentJobIndex, isClosingModal, page, modal, pendingOpen,
                  pendingPage, notification, isEnhancing, settings, budget >>

\* handlers of the navigator, the site's reactions and the clock
NavStep ==
  \/ \E delta \in {-1, 1} : navigateJob(delta)
  \/ \E delta \in {-1, 1} : selectAndOpenJob(delta)
  \/ pressEscape
  \/ untrustedEscape
  \/ closeReset
  \/ navClick
  \/ navEnhance
  \/ pagStart
  \/ checkForUpdate
  \/ pollNavigate
  \/ tableRefresh
  \/ siteOpenModal
  \/ siteLoadContent("full")
  \/ sitePageLoad
  \/ \E listing \in Listings : tableMutate(listing)
  \/ \E id \in JobIds : clickRow(id)
  \/ tick

\* while the navigator and the rearranger are studied the shortlist is left alone
InitShort ==
  /\ shortlistedJobs = <<>>
  /\ store = [kind |-> "absent", ids |-> <<>>]
  /\ loaded = TRUE
  /\ tog = NoToggle
  /\ toggles = 0

\* The navigator and the rearranger on a listing that fits one page and stays as it
\* is (no page controls, no filter change).
Init == InitNav /\ InitShort /\ page.rs = "some"

Next ==
  \/ \E delta \in {-1, 1} : navigateJob(delta)
  \/ \E delta \in {-1, 1} : selectAndOpenJob(delta)
  \/ pressEscape
  \/ untrustedEscape
  \/ closeReset
  \/ navClick
  \/ navEnhance
  \/ siteOpenModal
  \/ \E kind \in ContentKinds : siteLoadContent(kind)
  \/ \E id \in JobIds : clickRow(id)
  \/ obsEnhance
  \/ lateEnhance
  \/ \E enabled \in BOOLEAN : rearrangerInit(enabled)
  \/ tick

Spec == Init /\ [][Next]_vars

\* The navigator on any listing, with page controls and filter changes, on a page
\* where the user has switched the rearranger off.
InitNavOnly == InitNav /\ InitShort /\ ~settings.enabled

NextNav == NavStep

SpecNav == InitNavOnly /\ [][NextNav]_vars

\* the browser's timer queue: a due callback runs, and time passes when none is due
TimerStep ==
  \/ closeReset
  \/ navClick
  \/ navEnhance
  \/ pagStart
  \/ checkForUpdate
  \/ pollNavigate
  \/ tableRefresh
  \/ tick

\* SpecNav under the browser's guarantee that pending timers fire
SpecNavFair == SpecNav /\ WF_vars(TimerStep)

----------------------------------------------------------------------------
(* The shortlist alone: the script has just run, the stored shortlist (if any) is
   still to be read. *)

RECURSIVE Arrangements(_)
\* the sequences without repetition over a set
Arrangements(S) ==
  { <<>> } \cup UNION { { <<x>> \o a : a \in Arrangements(S \ {x}) } : x \in S }

InitShortlist ==
  /\ InitNav
  /\ page = [rs |-> "all", p |-> 1]
  /\ pendingOpen = 0
  /\ settings.enabled
  /\ shortlistedJobs = <<>>
  /\ store \in [kind : {"absent", "corrupt"}, ids : { <<>> }]
               \cup [kind : {"json"}, ids : Arrangements(JobIds)]
  /\ loaded = FALSE
  /\ tog = NoToggle
  /\ toggles = 0

NextShortlist ==
  \/ loadShortlist
  \/ \E id \in JobIds, fails \in BOOLEAN : toggleShortlistJob(id, fails)

SpecShortlist == InitShortlist /\ [][NextShortlist]_vars

----------------------------------------------------------------------------
(* The navigator and the shortlist together: the page has just been entered on the
   first page of the full listing, the stored shortlist is still to be read, and the
   user may press the shortlist key while a detail view is open. *)

\* the keydown handler's shortlist keys (ArrowUp, w, s) while the modal is open:
\* toggle the job the view shows, if its identifier can be read
keyToggle(fails) ==
  /\ Idle
  /\ modal.open
  /\ toggles < MaxKeyToggles
  /\ getCurrentModalJobId(jobLinks, currentJobIndex) # 0
  /\ toggleShortlistJob(getCurrentModalJobId(jobLinks, currentJobIndex), fails)

InitTrack ==
  /\ InitNav
  /\ ~settings.enabled
  /\ page = [rs |-> "all", p |-> 1]
  /\ shortlistedJobs = <<>>
  /\ store \in { [kind |-> "json", ids |-> <<2, 1>>],
                  [kind |-> "corrupt", ids |-> <<>>] }
  /\ loaded = FALSE
  /\ tog = NoToggle
  /\ toggles = 0

NextTrack ==
  \/ loadShortlist
  \/ \E fails \in BOOLEAN : keyToggle(fails)
  \/ \E delta \in {-1, 1} : navigateJob(delta)
  \/ \E delta \in {-1, 1} : selectAndOpenJob(delta)
  \/ pressEscape
  \/ closeReset
  \/ navClick
  \/ navEnhance
  \/ pagStart
  \/ checkForUpdate
  \/ pollNavigate
  \/ tableRefresh
  \/ siteOpenModal
  \/ siteLoadContent("full")
  \/ sitePageLoad
  \/ tick

SpecTrack == InitTrack /\ [][NextTrack]_vars

----------------------------------------------------------------------------
(* Rearranger: text *)

\* A text is the sequence of its characters.
MaxPad == 1        \* whitespace characters put before / after a label

WhiteSpace == {" ", "\t"}

UpperCase == <<"A","B","C","D","E","F","G","H","I","J","K","L","M","N","O","P","Q","R","S","T","U","V","W","X","Y","Z">>

LowerCase == <<"a","b","c","d","e","f","g","h","i","j","k","l","m","n","o","p","q","r","s","t","u","v","w","x","y","z">>

\* String.prototype.toLowerCase, character by character
LowerChar(c) ==
  IF \E i \in 1..Len(UpperCase) : UpperCase[i] = c
  THEN LowerCase[CHOOSE i \in 1..Len(UpperCase) : UpperCase[i] = c]
  ELSE c

UpperChar(c) ==
  IF \E i \in 1..Len(LowerCase) : LowerCase[i] = c
  THEN UpperCase[CHOOSE i \in 1..Len(LowerCase) : LowerCase[i] = c]
  ELSE c

toLowerCase(t) == [i \in 1..Len(t) |-> LowerChar(t[i])]

toUpperCase(t) == [i \in 1..Len(t) |-> UpperChar(t[i])]

RECURSIVE trimStart(_)
trimStart(t) ==
  IF t # <<>> /\ Head(t) \in WhiteSpace THEN trimStart(Tail(t)) ELSE t

RECURSIVE trimEnd(_)
trimEnd(t) ==
  IF t # <<>> /\ t[Len(t)] \in WhiteSpace
  THEN trimEnd(SubSeq(t, 1, Len(t) - 1))
  ELSE t

\* String.prototype.trim
trim(t) == trimEnd(trimStart(t))

\* replace(/:$/, ''): one colon at the very end is removed
StripColon(t) ==
  IF t # <<>> /\ t[Len(t)] = ":" THEN SubSeq(t, 1, Len(t) - 1) ELSE t

\* a.includes(b)
includes(a, b) ==
  \E i \in 0..(Len(a) - Len(b)) : SubSeq(a, i + 1, i + Len(b)) = b

----------------------------------------------------------------------------
(* Rearranger: label dictionary *)

\* the entries of the object literal, in insertion order (the order of Object.entries)
LABEL_TO_KEY ==
  <<
     [pattern |-> <<"w","o","r","k"," ","t","e","r","m"," ","d","u","r","a","t","i","o","n">>,
      key |-> "duration"],
     [pattern |-> <<"w","o","r","k"," ","t","e","r","m">>,
      key |-> "work_term"],
     [pattern |-> <<"r","e","g","i","o","n">>,
      key |-> "location"],
     [pattern |-> <<"j","o","b"," ","-"," ","c","i","t","y">>,
      key |-> "city"],
     [pattern |-> <<"j","o","b"," ","-"," ","p","r","o","v","i","n","c","e","/","s","t","a","t","e">>,
      key |-> "province"],
     [pattern |-> <<"j","o","b"," ","-"," ","c","o","u","n","t","r","y">>,
      key |-> "country"],
     [pattern |-> <<"j","o","b"," ","-"," ","a","d","d","r","e","s","s"," ","l","i","n","e"," ","o","n","e">>,
      key |-> "address"],
     [pattern |-> <<"j","o","b"," ","-"," ","p","o","s","t","a","l","/","z","i","p"," ","c","o","d","e">>,
      key |-> "postal"],
     [pattern |-> <<"e","m","p","l","o","y","m","e","n","t"," ","l","o","c","a","t","i","o","n"," ","a","r","r","a","n","g","e","m","e","n","t">>,
      key |-> "arrangement"],
     [pattern |-> <<"c","o","m","p","e","n","s","a","t","i","o","n"," ","a","n","d"," ","b","e","n","e","f","i","t","s">>,
      key |-> "compensation"],
     [pattern |-> <<"a","p","p","l","i","c","a","t","i","o","n"," ","d","e","a","d","l","i","n","e">>,
      key |-> "deadline"],
     [pattern |-> <<"a","p","p","l","i","c","a","t","i","o","n"," ","d","e","l","i","v","e","r","y">>,
      key |-> "method"],
     [pattern |-> <<"i","f"," ","b","y"," ","w","e","b","s","i","t","e",","," ","g","o"," ","t","o">>,
      key |-> "external_url"],
     [pattern |-> <<"j","o","b"," ","s","u","m","m","a","r","y">>,
      key |-> "job_description"],
     [pattern |-> <<"j","o","b"," ","r","e","s","p","o","n","s","i","b","i","l","i","t","i","e","s">>,
      key |-> "responsibilities"],
     [pattern |-> <<"r","e","q","u","i","r","e","d"," ","s","k","i","l","l","s">>,
      key |-> "required_skills"],
     [pattern |-> <<"t","a","r","g","e","t","e","d"," ","d","e","g","r","e","e","s"," ","a","n","d"," ","d","i","s","c","i","p","l","i","n","e","s">>,
      key |-> "targeted_degrees"]
  >>

\* getLabelKey's null
null == "null"

\* LABEL_TO_KEY is a plain object: a property name that it does not own is looked up
\* on Object.prototype.  These are the all-lower-case names found there, with the
\* string the (truthy) value turns into when it is used as a property name.
ObjectPrototype ==
  << [pattern |-> <<"c","o","n","s","t","r","u","c","t","o","r">>,
      key |-> "function Object() { [native code] }"],
     [pattern |-> <<"_","_","p","r","o","t","o","_","_">>,
      key |-> "[object Object]"] >>

\* index of the first entry of a table with this pattern, 0 if there is none
Own(table, lower) ==
  IF \E i \in 1..Len(table) : table[i].pattern = lower
  THEN CHOOSE i \in 1..Len(table) :
         /\ table[i].pattern = lower
         /\ \A j \in 1..(i - 1) : table[j].pattern # lower
  ELSE 0

\* the partial-match test of one entry
PartialMatch(lower, pattern) == includes(lower, pattern) \/ includes(pattern, lower)

\* the normalisation without the change of letter case
NormalizeKeepsCase(text) == StripColon(trim(text))

\* the normalisation at the head of getLabelKey
Normalize(text) == StripColon(toLowerCase(trim(text)))

\* the partial-match loop returning at the last matching entry
LastPartial(lower) ==
  IF \E i \in 1..Len(LABEL_TO_KEY) : PartialMatch(lower, LABEL_TO_KEY[i].pattern)
  THEN CHOOSE i \in 1..Len(LABEL_TO_KEY) :
         /\ PartialMatch(lower, LABEL_TO_KEY[i].pattern)
         /\ \A j \in (i + 1)..Len(LABEL_TO_KEY) :
              ~PartialMatch(lower, LABEL_TO_KEY[j].pattern)
  ELSE 0

\* index of the entry the partial-match loop returns at, 0 if it runs to its end
FirstPartial(lower) ==
  IF \E i \in 1..Len(LABEL_TO_KEY) : PartialMatch(lower, LABEL_TO_KEY[i].pattern)
  THEN CHOOSE i \in 1..Len(LABEL_TO_KEY) :
         /\ PartialMatch(lower, LABEL_TO_KEY[i].pattern)
         /\ \A j \in 1..(i - 1) : ~PartialMatch(lower, LABEL_TO_KEY[j].pattern)
  ELSE 0

getLabelKey(text) ==
  LET lower == Normalize(text)
  IN  IF Own(LABEL_TO_KEY, lower) # 0
      THEN LABEL_TO_KEY[Own(LABEL_TO_KEY, lower)].key
      ELSE IF Own(ObjectPrototype, lower) # 0
      THEN ObjectPrototype[Own(ObjectPrototype, lower)].key
      ELSE IF FirstPartial(lower) # 0
      THEN LABEL_TO_KEY[FirstPartial(lower)].key
      ELSE null

----------------------------------------------------------------------------
(* Rearranger: getLabelKey on its own *)

\* the navigator at rest on an empty listing, the rearranger loaded and enabled
InitNavRest ==
  /\ page = [rs |-> "none", p |-> 1]
  /\ jobLinks = <<>>
  /\ currentJobIndex = -1
  /\ isClosingModal = FALSE
  /\ modal = NoModal
  /\ pendingOpen = 0
  /\ pendingPage = 0
  /\ timers = <<>>
  /\ notification = "none"
  /\ isEnhancing = FALSE
  /\ settings = [loaded |-> TRUE, enabled |-> TRUE, observing |-> TRUE]
  /\ ev = Ev("init", 0, "", 0, TRUE)
  /\ budget = 0

\* ... with the shortlist read and empty
InitNavIdle == InitNavRest /\ InitShort

\* ... and nothing injected
InitPageIdle == InitNavIdle /\ InitStylesIdle /\ InitRowsIdle

RECURSIVE Pads(_)
\* the runs of at most n whitespace characters
Pads(n) ==
  IF n = 0 THEN { <<>> }
  ELSE Pads(n - 1) \cup { <<c>> \o t : c \in WhiteSpace, t \in { u \in Pads(n - 1) : Len(u) = n - 1 } }

Patterns == { LABEL_TO_KEY[i].pattern : i \in 1..Len(LABEL_TO_KEY) }

\* the documented canonical key of a dictionary label
KeyOf(pattern) == LABEL_TO_KEY[Own(LABEL_TO_KEY, pattern)].key

Capitalize(t) == IF t = <<>> THEN t ELSE <<UpperChar(Head(t))>> \o Tail(t)

\* a label as the page may spell it: lower case, upper case, or with a capital
Cases(t) == { t, toUpperCase(t), Capitalize(t) }

\* a colon put right after a text, or none
Colons == { <<>>, <<":">> }

\* a dictionary label with whitespace around it, in any letter case, and with a
\* trailing colon added right after it
Decorated(pattern) ==
  { pre \o c \o colon \o post :
      pre \in Pads(MaxPad), c \in Cases(pattern), colon \in Colons, post \in Pads(MaxPad) }

\* the same, the colon added after the trailing whitespace
DecoratedLoosely(pattern) ==
  { pre \o c \o mid \o colon \o post :
      pre \in Pads(MaxPad), c \in Cases(pattern), mid \in Pads(MaxPad),
      colon \in Colons, post \in Pads(MaxPad) }

\* the runs of whole words of a text
Phrases(t) ==
  { SubSeq(t, i, j) : i \in { a \in 1..Len(t) : a = 1 \/ t[a - 1] = " " },
                      j \in { b \in 1..Len(t) : b = Len(t) \/ t[b + 1] = " " } }
  \ { <<>> }

\* a text with one more word before or after it
Worded(t) == { <<"q", " ">> \o t, t \o <<" ", "q">> }

\* labels of the page that the dictionary does not list
OtherLabels ==
  { <<"l","e","v","e","l">>,
    <<"p","o","s","i","t","i","o","n"," ","t","y","p","e">>,
    <<"N","u","m","b","e","r"," ","o","f"," ","J","o","b"," ","O","p","e","n","i","n","g","s",":">>,
    <<"h","q">>,
    <<"C","o","n","s","t","r","u","c","t","o","r">>,
    <<"c","o","n","s","t","r","u","c","t","o","r",":">>,
    <<"_","_","p","r","o","t","o","_","_">> }

\* labels a posting may use for its compensation
CompensationLabels ==
  { <<"c","o","m","p","e","n","s","a","t","i","o","n">>,
    <<"s","a","l","a","r","y">>,
    <<"p","a","y">>,
    <<"b","e","n","e","f","i","t","s">> }

\* labels a posting may use for its deadline
DeadlineLabels ==
  { <<"d","e","a","d","l","i","n","e">>,
    <<"a","p","p","l","y"," ","b","y">>,
    <<"d","u","e"," ","d","a","t","e">> }

LabelInputs ==
  UNION { DecoratedLoosely(pt) \cup Phrases(pt) \cup Worded(pt) : pt \in Patterns }
  \cup OtherLabels
  \cup UNION { Cases(t) : t \in CompensationLabels \cup DeadlineLabels }

InitLabel ==
  /\ InitPageIdle
  /\ labelText \in LabelInputs
  /\ key = null
  /\ widgets = <<>>
  /\ priorityKeys = <<>>
  /\ fields = <<>>
  /\ priorityItems = <<>>
  /\ display = <<>>
  /\ section = <<>>
  /\ rendered = <<>>
  /\ stage = "input"

\* a call of getLabelKey
resolveLabel ==
  /\ stage = "input"
  /\ key' = getLabelKey(labelText)
  /\ stage' = "done"
  /\ UNCHANGED << navVars, shortVars, pageVars, labelText, widgets, priorityKeys,
                  fields, priorityItems, display, section, rendered >>

NextLabel == resolveLabel

SpecLabel == InitLabel /\ [][NextLabel]_vars

----------------------------------------------------------------------------
(* Rearranger: buildLocation and createPriorityBox *)

MaxKeys == 2       \* length of the priority-key lists tried besides the default

\* a JavaScript value that is a string or null
Null == [isNull |-> TRUE, text |-> <<>>]
Str(t) == [isNull |-> FALSE, text |-> t]

\* the value is truthy: neither null nor the empty string
Truthy(v) == ~v.isNull /\ v.text # <<>>

\* fields.k is set
Present(fs, k) == k \in DOMAIN fs

RECURSIVE join(_, _)
\* Array.prototype.join
join(parts, sep) ==
  IF parts = <<>> THEN <<>>
  ELSE IF Len(parts) = 1 THEN parts[1]
  ELSE parts[1] \o sep \o join(Tail(parts), sep)

buildLocation(fs) ==
  LET parts == (IF Present(fs, "city") THEN << fs["city"].value >> ELSE <<>>)
               \o (IF Present(fs, "province") THEN << fs["province"].value >> ELSE <<>>)
  IN  IF Len(parts) > 0 THEN Str(join(parts, <<",", " ">>))
      ELSE IF Present(fs, "location") THEN Str(fs["location"].value)
      ELSE Null

Item(label, value, k, isLink) ==
  [label |-> label, value |-> value, key |-> k, isLink |-> isLink]

waterlooworks == <<"w","a","t","e","r","l","o","o","w","o","r","k","s">>

\* isRegular comparing the value as it is written
isRegularCaseSensitive(value) ==
  \/ value = waterlooworks
  \/ includes(value, waterlooworks)
  \/ value = <<>>

\* isRegular of the method branch: /^waterlooworks$/i, includes, empty
isRegular(value) ==
  LET methodLower == trim(toLowerCase(value))
  IN  \/ methodLower = waterlooworks
      \/ includes(methodLower, waterlooworks)
      \/ methodLower = <<>>

\* priorityKeys.includes(k) looking at the head of the list only
keysIncludeHeadOnly(keys, k) == keys # <<>> /\ keys[1] = k

\* priorityKeys.includes(k)
keysInclude(keys, k) == k \in SeqToSet(keys)

\* the companion URL pushed whether or not the method item was
urlItemUngated(fs, keys) ==
  IF /\ Present(fs, "external_url")
     /\ fs["external_url"].value # <<>>
  THEN << Item("Application URL", fs["external_url"].value, "external_url", TRUE) >>
  ELSE <<>>

\* the companion URL, inside the method branch
urlItem(fs, keys) ==
  IF /\ keysInclude(keys, "method")
     /\ Present(fs, "method")
     /\ ~isRegular(fs["method"].value)
     /\ Present(fs, "external_url")
     /\ fs["external_url"].value # <<>>
  THEN << Item("Application URL", fs["external_url"].value, "external_url", TRUE) >>
  ELSE <<>>

\* priorityItems of createPriorityBox; the function returns null (no box) when the
\* rearranger is disabled or the list is empty
createPriorityBox(fs, keys, enabled) ==
  LET has(k) == keysInclude(keys, k)
      locationValue == buildLocation(fs)
  IN  IF ~enabled THEN <<>>
      ELSE
        (IF has("duration") /\ Present(fs, "duration")
         THEN << Item("Work Term Duration", fs["duration"].value, "duration", FALSE) >>
         ELSE <<>>)
        \o
        (IF has("location") /\ Truthy(locationValue)
         THEN << Item("Location", locationValue.text, "location", FALSE) >>
         ELSE <<>>)
        \o
        (IF has("compensation") /\ Present(fs, "compensation")
         THEN << Item("Compensation & Benefits", fs["compensation"].value,
                      "compensation", FALSE) >>
         ELSE <<>>)
        \o
        (IF has("deadline") /\ Present(fs, "deadline")
         THEN << Item("Application Deadline", fs["deadline"].value, "deadline", FALSE) >>
         ELSE <<>>)
        \o
        (IF has("method") /\ Present(fs, "method") /\ ~isRegular(fs["method"].value)
         THEN << Item("Apply Via", fs["method"].value, "method", FALSE) >>
         ELSE <<>>)
        \o
        urlItem(fs, keys)

LinkTextMax == 50    \* characters of a link's value that are displayed

http == <<"h","t","t","p">>

\* value.startsWith(prefix)
startsWith(value, prefix) ==
  /\ Len(value) >= Len(prefix)
  /\ SubSeq(value, 1, Len(prefix)) = prefix

\* value.substring(0, n)
substring(value, n) == SubSeq(value, 1, IF Len(value) < n THEN Len(value) ELSE n)

\* the link test of the value span
isAnchor(item) == item.isLink /\ startsWith(item.value, http)

\* the text of the anchor
linkText(value) ==
  IF Len(value) > LinkTextMax
  THEN substring(value, LinkTextMax) \o <<".", ".", ".">>
  ELSE value

\* the value span of one item: an anchor (tag "a") with its target and text in it, or
\* the value as the span's own text
renderValue(item) ==
  IF isAnchor(item)
  THEN [tag |-> "a", href |-> item.value, text |-> linkText(item.value)]
  ELSE [tag |-> "span", href |-> <<>>, text |-> item.value]

\* the forEach over priorityItems that builds the cells of the box
renderItems(items) == [ i \in DOMAIN items |-> renderValue(items[i]) ]

\* DEFAULT_SETTINGS.jobRearrangerPriorityKeys
DefaultPriorityKeys == << "duration", "location", "compensation", "deadline", "method" >>

\* the keys createPriorityBox checks for, in the order of its checks
RecognizedKeys == << "duration", "location", "compensation", "deadline", "method",
                     "external_url" >>

\* the priority-key lists the user may have configured
PriorityLists ==
  { a \in Arrangements(SeqToSet(RecognizedKeys)) : Len(a) <= MaxKeys }
  \cup { DefaultPriorityKeys }

\* a field as parseFieldsFromModal records it
Field(k, value, element) ==
  [label |-> LABEL_TO_KEY[CHOOSE i \in 1..Len(LABEL_TO_KEY) : LABEL_TO_KEY[i].key = k].pattern,
   value |-> value, element |-> element]

\* the value texts a field of the posting may hold (the empty text: a widget without
\* value paragraph)
ValuesOf(k) ==
  CASE k = "duration" -> { <<"4"," ","m","o","n","t","h">> }
    [] k = "city" -> { <<>>, <<"W","a","t","e","r","l","o","o">> }
    [] k = "province" -> { <<"O","N">> }
    [] k = "location" -> { <<>>, <<"R","e","m","o","t","e">> }
    [] k = "compensation" -> { <<"$","2","5">> }
    [] k = "deadline" -> { <<"J","a","n"," ","5">> }
    [] k = "method" -> { <<>>, <<"W","a","t","e","r","l","o","o","W","o","r","k","s">>,
                         <<" ","w","a","t","e","r","l","o","o","w","o","r","k","s"," ">>,
                         <<"E","m","a","i","l">>,
                         <<"W","a","t","e","r","l","o","o","W","o","r","k","s"," ","o","r"," ","e","m","a","i","l">> }
    [] k = "external_url" -> { <<>>, <<"h","t","t","p",":","/","/","e","x","a","m","p","l","e",".","c","o","m","/","a","p","p","l","y">> }
    [] OTHER -> { <<>> }

\* the keys of the postings tried
ComposeKeys == { "duration", "city", "province", "location", "compensation",
                 "deadline", "method", "external_url" }

\* a field of the posting: missing, or there with one of its values
Options(k) == { Null } \cup { Str(v) : v \in ValuesOf(k) }

\* the postings tried: every key missing or there with any of its values (the
\* compensation is given when the deadline is)
InitCompose ==
  /\ InitPageIdle
  /\ labelText = <<>>
  /\ key = null
  /\ widgets = <<>>
  /\ priorityKeys \in PriorityLists
  /\ \E duration \in Options("duration"), city \in Options("city"),
        province \in Options("province"), location \in Options("location"),
        deadline \in Options("deadline"), method \in Options("method"),
        external_url \in Options("external_url") :
       LET choice == [ k \in ComposeKeys |->
                         CASE k = "duration" -> duration
                           [] k = "city" -> city
                           [] k = "province" -> province
                           [] k = "location" -> location
                           [] k = "compensation" ->
                                IF deadline.isNull THEN Null
                                ELSE Str(CHOOSE v \in ValuesOf("compensation") : TRUE)
                           [] k = "deadline" -> deadline
                           [] k = "method" -> method
                           [] k = "external_url" -> external_url ]
       IN  fields = [ k \in { c \in ComposeKeys : ~choice[c].isNull } |->
                        Field(k, choice[k].text, 0) ]
  /\ priorityItems = <<>>
  /\ display = <<>>
  /\ section = <<>>
  /\ rendered = <<>>
  /\ stage = "input"

\* a call of createPriorityBox
compose ==
  /\ stage = "input"
  /\ priorityItems' = createPriorityBox(fields, priorityKeys, settings.enabled)
  /\ rendered' = renderItems(priorityItems')
  /\ stage' = "done"
  /\ UNCHANGED << navVars, shortVars, pageVars, labelText, key, widgets, priorityKeys,
                  fields, display, section >>

NextCompose == compose

SpecCompose == InitCompose /\ [][NextCompose]_vars

----------------------------------------------------------------------------
(* Rearranger: the value span of a priority item, on its own *)

MaxOver == 1    \* characters by which a value exceeds the displayed length

\* text padded with the letter a up to n characters
Fill(text, n) == text \o [ i \in 1..(n - Len(text)) |-> "a" ]

\* how the values tried begin
Prefixes ==
  { <<>>,
    <<"h","t","t","p">>,
    <<"h","t","t","p",":","/","/">>,
    <<"h","t","t","p","s",":","/","/">>,
    <<"H","T","T","P",":","/","/">>,
    <<"f","t","p",":","/","/">>,
    <<"w","w","w",".">> }

\* the values tried: short ones, and ones around the displayed length
RenderValues ==
  UNION { { pre, Fill(pre, Len(pre) + 3) }
            \cup { Fill(pre, n) : n \in (LinkTextMax - 1)..(LinkTextMax + MaxOver) } :
          pre \in Prefixes }

\* the items tried: the 'Application URL' item (the one pushed with isLink) and the
\* 'Apply Via' item
RenderItems ==
  { Item("Application URL", v, "external_url", TRUE) : v \in RenderValues }
  \cup { Item("Apply Via", v, "method", FALSE) : v \in RenderValues }

InitRender ==
  /\ InitPageIdle
  /\ labelText = <<>>
  /\ key = null
  /\ widgets = <<>>
  /\ priorityKeys = <<>>
  /\ fields = <<>>
  /\ \E item \in RenderItems : priorityItems = << item >>
  /\ display = <<>>
  /\ section = <<>>
  /\ rendered = <<>>
  /\ stage = "input"

\* the forEach of createPriorityBox over the items
render ==
  /\ stage = "input"
  /\ rendered' = renderItems(priorityItems)
  /\ stage' = "done"
  /\ UNCHANGED << navVars, shortVars, pageVars, labelText, key, widgets, priorityKeys,
                  fields, priorityItems, display, section >>

NextRender == render

SpecRender == InitRender /\ [][NextRender]_vars

----------------------------------------------------------------------------
(* Rearranger: parseFieldsFromModal and the hiding of the original fields *)

MaxWidgets == 2    \* label/value widgets in the view

\* A widget is a .tag__key-value-list with its own parent element: label is the text
\* of its label element, p the text of its value paragraph, table the text of a table
\* in it (Null: no such element); element identifies the parent.
Widget(label, p, table, element) ==
  [label |-> label, p |-> p, table |-> table, element |-> element]

\* the text parseFieldsFromModal takes as the widget's label
LabelTextOf(w) == StripColon(trim(w.label.text))

\* the text parseFieldsFromModal takes as the widget's value
ValueOf(w) ==
  IF w.p.isNull THEN <<>>
  ELSE IF ~w.table.isNull /\ trim(w.p.text) = <<>> THEN trim(w.table.text)
  ELSE trim(w.p.text)

\* fields[k] = field
Put(fs, k, field) == [ c \in DOMAIN fs \cup {k} |-> IF c = k THEN field ELSE fs[c] ]

RECURSIVE parseFieldsFromModal(_, _)
\* the forEach over the widgets, from the fields recorded so far
parseFieldsFromModal(ws, fs) ==
  IF ws = <<>> THEN fs
  ELSE LET w == Head(ws)
       IN  IF w.label.isNull \/ LabelTextOf(w) = <<>> \/ getLabelKey(LabelTextOf(w)) = null
           THEN parseFieldsFromModal(Tail(ws), fs)
           ELSE parseFieldsFromModal(Tail(ws),
                  Put(fs, getLabelKey(LabelTextOf(w)),
                      [label |-> LabelTextOf(w), value |-> ValueOf(w), element |-> w.element]))

locationKeys == << "city", "province", "country", "address", "postal" >>

\* the elements enhanceModal sets display = 'none' on
HiddenElements(fs, keys) ==
  { fs[k].element :
      k \in { c \in DOMAIN fs :
                \/ c \in SeqToSet(keys) \ {"location"}
                \/ c \in SeqToSet(locationKeys) /\ "location" \in SeqToSet(keys)
                \/ c \in {"deadline", "method", "external_url"} } }

\* label elements of the postings tried
WidgetLabels ==
  { Null,
    Str(<<" ">>),
    Str(<<"R","e","g","i","o","n">>),
    Str(<<"J","o","b"," ","-"," ","C","i","t","y">>),
    Str(<<"A","p","p","l","i","c","a","t","i","o","n"," ","D","e","a","d","l","i","n","e",":">>),
    Str(<<"A","p","p","l","i","c","a","t","i","o","n"," ","D","e","l","i","v","e","r","y">>),
    Str(<<"W","o","r","k"," ","T","e","r","m"," ","D","u","r","a","t","i","o","n">>),
    Str(<<"D","u","r","a","t","i","o","n">>),
    Str(<<"L","e","v","e","l">>),
    Str(<<"_","_","p","r","o","t","o","_","_">>) }

\* value paragraph and table of the postings tried
WidgetValues ==
  { [p |-> Null, table |-> Null],
    [p |-> Str(<<" ","A"," ">>), table |-> Null],
    [p |-> Str(<<"B">>), table |-> Null],
    [p |-> Str(<<>>), table |-> Str(<<"T">>)] }

RECURSIVE WidgetLists(_)
\* the views of n widgets, each widget in a parent of its own
WidgetLists(n) ==
  IF n = 0 THEN { <<>> }
  ELSE { Append(ws, Widget(l, v.p, v.table, n)) :
           ws \in WidgetLists(n - 1), l \in WidgetLabels, v \in WidgetValues }

\* the priority-key lists of the views tried
ExtractLists ==
  { DefaultPriorityKeys, <<>>, << "location" >>, << "duration", "external_url" >> }

MaxChildren == 2    \* child nodes of the 'Job Posting Information' panel

\* The child nodes of the panel: "h4" is the heading as a child of the panel,
\* "div>h4" a child that wraps the heading alone, "div>h4+p" a child that wraps the
\* heading and a node after it, "div" any other child, "box" the priority box.
HeadingKinds == { "h4", "div>h4", "div>h4+p" }

\* jobInfoPanel.querySelector('h4'): the child holding the first h4 in document order
HeadingAt(children) ==
  CHOOSE i \in 1..Len(children) :
    /\ children[i] \in HeadingKinds
    /\ \A j \in 1..(i - 1) : children[j] \notin HeadingKinds

\* h4.nextSibling is a node
hasNextSibling(children) ==
  \/ children[HeadingAt(children)] = "div>h4+p"
  \/ children[HeadingAt(children)] = "h4" /\ HeadingAt(children) < Len(children)

\* insertBefore throws when its reference node is not a child of the panel
insertThrows(children) == children[HeadingAt(children)] = "div>h4+p"

\* the panel's children after the insertion of the box (lines 389-394)
insertPriorityBox(children) ==
  IF hasNextSibling(children)
  THEN SubSeq(children, 1, HeadingAt(children)) \o << "box" >>
         \o SubSeq(children, HeadingAt(children) + 1, Len(children))
  ELSE << "box" >> \o children

\* the panels of the views tried: one heading, anywhere among the children
Sections ==
  { c \in UNION { [1..n -> HeadingKinds \cup {"div"}] : n \in 1..MaxChildren } :
      Cardinality({ i \in DOMAIN c : c[i] \in HeadingKinds }) = 1 }

InitExtract ==
  /\ InitPageIdle
  /\ labelText = <<>>
  /\ key = null
  /\ \E n \in 0..MaxWidgets : widgets \in WidgetLists(n)
  /\ priorityKeys \in ExtractLists
  /\ fields = <<>>
  /\ priorityItems = <<>>
  /\ display = [ e \in 1..Len(widgets) |-> "" ]
  /\ section \in Sections
  /\ rendered = <<>>
  /\ stage = "input"

\* enhanceModal from the parse on, for a view that is on its overview tab and has its
\* 'Job Posting Information' panel; an exception of the insertion ends the pass
rearrange ==
  /\ stage = "input"
  /\ settings.enabled
  /\ LET parsed == parseFieldsFromModal(widgets, <<>>)
         items == createPriorityBox(parsed, priorityKeys, settings.enabled)
     IN  /\ fields' = parsed
         /\ IF DOMAIN parsed = {}
            THEN UNCHANGED << priorityItems, rendered, section, display >>
            ELSE /\ priorityItems' = items
                 /\ rendered' = renderItems(items)
                 /\ IF items # <<>> /\ insertThrows(section)
                    THEN UNCHANGED << section, display >>
                    ELSE /\ section' = IF items # <<>> THEN insertPriorityBox(section)
                                       ELSE section
                         /\ display' = [ e \in DOMAIN display |->
                                           IF e \in HiddenElements(parsed, priorityKeys)
                                           THEN "none" ELSE display[e] ]
  /\ stage' = "done"
  /\ UNCHANGED << navVars, shortVars, pageVars, labelText, key, widgets, priorityKeys >>

NextExtract == rearrange

SpecExtract == InitExtract /\ [][NextExtract]_vars

----------------------------------------------------------------------------
(* DOM hooks: injectStylesheet / injectStyles and the theme *)

MaxInjected == 1    \* elements injected without an id

NoId == "null"      \* the id argument left out

\* ids the content script injects with
ElementIds == { "azure-theme-css", "azure-layout-css", "azure-extra" }

Themes == { "azure-light", "azure-dark" }

\* chrome.runtime.getURL(`ui/themes/${themeId}.css`)
themeUrl(t) == << "ui/themes", t >>

\* chrome.runtime.getURL('ui/layout/layout.css')
layoutUrl == << "ui/layout", "layout" >>

\* stylesheets of other features, and the ids they are injected with
Hrefs == { << "ui/layout", "postings" >>, << "ui/layout", "messages" >> }

FeatureIds == { "azure-extra", NoId }

CssTexts == { "a{}", "b{}" }

NoCall == [fn |-> "none", arg |-> ""]

NoCalls == [ id \in ElementIds |-> NoCall ]

\* document.getElementById(id): the index of the first element with that id, 0 if none
getElementById(els, id) ==
  IF \E i \in 1..Len(els) : els[i].id = id
  THEN CHOOSE i \in 1..Len(els) : els[i].id = id /\ \A j \in 1..(i - 1) : els[j].id # id
  ELSE 0

\* the document's injected elements after DOMHooks.injectStylesheet(href, id)
injectStylesheet(els, href, id) ==
  IF id # NoId /\ getElementById(els, id) # 0
  THEN els
  ELSE Append(els, [tag |-> "link", id |-> id, href |-> href, textContent |-> ""])

\* the document's injected elements after DOMHooks.injectStyles(css, id)
injectStyles(els, css, id) ==
  IF id # NoId /\ getElementById(els, id) # 0
  THEN [els EXCEPT ![getElementById(els, id)].textContent = css]
  ELSE Append(els, [tag |-> "style", id |-> id, href |-> "", textContent |-> css])

\* the history of the last call per id
Called(cs, fn, arg, id) ==
  IF id = NoId THEN cs ELSE [cs EXCEPT ![id] = [fn |-> fn, arg |-> arg]]

\* a call of injectStylesheet from some feature of the content script
callInjectStylesheet(href, id) ==
  /\ id = NoId => Len(SelectSeq(styles, LAMBDA el : el.id = NoId)) < MaxInjected
  /\ styles' = injectStylesheet(styles, href, id)
  /\ calls' = Called(calls, "injectStylesheet", href, id)
  /\ UNCHANGED << navVars, shortVars, labelText, key, widgets, priorityKeys, fields,
                  priorityItems, display, section, rendered, stage, themeId, rowVars >>

\* a call of injectStyles from some feature of the content script
callInjectStyles(css, id) ==
  /\ id = NoId => Len(SelectSeq(styles, LAMBDA el : el.id = NoId)) < MaxInjected
  /\ styles' = injectStyles(styles, css, id)
  /\ calls' = Called(calls, "injectStyles", css, id)
  /\ UNCHANGED << navVars, shortVars, labelText, key, widgets, priorityKeys, fields,
                  priorityItems, display, section, rendered, stage, themeId, rowVars >>

\* the stylesheet part of applyTheme for theme t, on a page other than the login page
\* with the themes feature on
applyThemeStyles(els, t) ==
  injectStylesheet(injectStylesheet(els, themeUrl(t), "azure-theme-css"),
                   layoutUrl, "azure-layout-css")

\* applyTheme on initialisation or on a route change
applyTheme ==
  /\ styles' = applyThemeStyles(styles, themeId)
  /\ calls' = Called(Called(calls, "injectStylesheet", themeUrl(themeId), "azure-theme-css"),
                     "injectStylesheet", layoutUrl, "azure-layout-css")
  /\ UNCHANGED << navVars, shortVars, labelText, key, widgets, priorityKeys, fields,
                  priorityItems, display, section, rendered, stage, themeId, rowVars >>

\* onSettingsChanged with a themeId change
onThemeChanged(t) ==
  /\ t # themeId
  /\ themeId' = t
  /\ styles' = applyThemeStyles(styles, t)
  /\ calls' = Called(Called(calls, "injectStylesheet", themeUrl(t), "azure-theme-css"),
                     "injectStylesheet", layoutUrl, "azure-layout-css")
  /\ UNCHANGED << navVars, shortVars, labelText, key, widgets, priorityKeys, fields,
                  priorityItems, display, section, rendered, stage, rowVars >>

\* DOMHooks.cleanup: every .azure-injected element is removed
cleanup ==
  /\ styles # <<>>
  /\ styles' = <<>>
  /\ calls' = NoCalls
  /\ UNCHANGED << navVars, shortVars, labelText, key, widgets, priorityKeys, fields,
                  priorityItems, display, section, rendered, stage, themeId, rowVars >>

InitStyles ==
  /\ InitNavIdle
  /\ InitFieldsIdle
  /\ InitRowsIdle
  /\ styles = <<>>
  /\ themeId \in Themes
  /\ calls = NoCalls

NextStyles ==
  \/ \E href \in Hrefs, id \in FeatureIds : callInjectStylesheet(href, id)
  \/ \E css \in CssTexts, id \in FeatureIds : callInjectStyles(css, id)
  \/ applyTheme
  \/ \E t \in Themes : onThemeChanged(t)
  \/ cleanup

SpecStyles == InitStyles /\ [][NextStyles]_vars

----------------------------------------------------------------------------
(* Navigator: the 'new job' highlight of the listing rows *)

MaxDays == 2        \* days past the default window a threshold / a deadline may lie
MaxListed == 1      \* listing rows

DaysBack == 7       \* the days subtracted from the threshold

\* the thresholds the user may have saved
Thresholds == { -1, 0, 1, DefaultThreshold - 1 } \cup DefaultThreshold..(DefaultThreshold + MaxDays)

\* value || DEFAULT_SETTINGS.newJobDaysThreshold, for a number
OrDefault(value) == IF value = 0 THEN DefaultThreshold ELSE value

\* AzureStorage.getSettings: the saved value, the default for a missing one
getSettings(saved) == IF saved.set THEN saved.value ELSE DefaultThreshold

\* loadSettings: loaded.newJobDaysThreshold || DEFAULT_SETTINGS.newJobDaysThreshold
loadSettings(saved) ==
  [newJobDaysThreshold |-> OrDefault(getSettings(saved)), from |-> saved]

\* A row: id (its job id), links (the job links found in it), badge (it carries a NEW
\* badge), days (the N of 'Deadline in N day' in its text, -1 when the text has no
\* such phrase), marked (class waw-new-job), indicators (its shortlist indicators).
RowTexts == [badge : BOOLEAN, days : -1..(MaxDays + 1)]

\* the strict comparison of the deadline count with the threshold less seven days
pastThreshold(days, threshold) == days > threshold - DaysBack

\* the test of checkAndHighlightNewJob
isNewJob(row, st) ==
  \/ row.badge
  \/ row.days >= 0 /\ pastThreshold(row.days, OrDefault(st.newJobDaysThreshold))

\* checkAndHighlightNewJob(row): the row after the call
checkAndHighlightNewJob(row, st) ==
  IF isNewJob(row, st) THEN [row EXCEPT !.marked = TRUE] ELSE row

\* addShortlistIndicator appending whether or not the row has an indicator
addShortlistIndicatorAgain(row, set) ==
  [row EXCEPT !.indicators = Append(@, [jobId |-> row.id, star |-> Star(set, row.id)])]

\* addShortlistIndicator(row, jobId): the row after the call
addShortlistIndicator(row, set) ==
  IF row.indicators # <<>> THEN row
  ELSE [row EXCEPT !.indicators = << [jobId |-> row.id, star |-> Star(set, row.id)] >>]

RECURSIVE enhanceRow(_, _, _, _)
\* the body of enhanceJobTable's forEach, run once for each of the n links of the row
enhanceRow(row, n, set, st) ==
  IF n = 0 THEN row
  ELSE enhanceRow(checkAndHighlightNewJob(addShortlistIndicator(row, set), st),
                  n - 1, set, st)

\* enhanceJobTable (on initialisation, after the shortlist is read, and on every table
\* refresh): the old indicators are removed, then every link's row is enhanced
enhanceJobTable ==
  /\ loaded
  /\ rows' = [ i \in DOMAIN rows |->
                enhanceRow([rows[i] EXCEPT !.indicators = <<>>], rows[i].links,
                           shortlistedJobs, navSettings) ]
  /\ stage' = "done"
  /\ UNCHANGED << navVars, shortVars, styleVars, labelText, key, widgets, priorityKeys,
                  fields, priorityItems, display, section, rendered, configured,
                  navSettings, navUI >>

\* the site re-renders a row in place: its badge and deadline text change
siteUpdateRow(i, text) ==
  /\ i \in DOMAIN rows
  /\ [badge |-> rows[i].badge, days |-> rows[i].days] # text
  /\ rows' = [rows EXCEPT ![i].badge = text.badge, ![i].days = text.days]
  /\ stage' = "input"
  /\ UNCHANGED << navVars, shortVars, styleVars, labelText, key, widgets, priorityKeys,
                  fields, priorityItems, display, section, rendered, configured,
                  navSettings, navUI >>

\* the user saves another threshold on the options page; the navigator reads its
\* settings on initialisation only
saveThreshold(t) ==
  /\ Saved(t) # configured
  /\ configured' = Saved(t)
  /\ UNCHANGED << navVars, shortVars, styleVars, labelText, key, widgets, priorityKeys,
                  fields, priorityItems, display, section, rendered, navSettings, rows,
                  navUI, stage >>

\* the navigator has initialised on a listing whose rows are still to be enhanced
InitNew ==
  /\ InitNavIdle
  /\ InitStylesIdle
  /\ labelText = <<>>
  /\ key = "null"
  /\ widgets = <<>>
  /\ priorityKeys = <<>>
  /\ fields = <<>>
  /\ priorityItems = <<>>
  /\ display = <<>>
  /\ section = <<>>
  /\ rendered = <<>>
  /\ configured \in { Saved(t) : t \in Thresholds } \cup { Unset }
  /\ navSettings = loadSettings(configured)
  /\ \E n \in 1..MaxListed :
       rows \in [1..n -> [id : {1}, links : {1}, badge : BOOLEAN,
                          days : -1..(MaxDays + 1), marked : {FALSE},
                          indicators : { <<>> }]]
  /\ navUI = NoUI
  /\ stage = "input"

NextNew ==
  \/ enhanceJobTable
  \/ \E i \in 1..MaxListed, text \in RowTexts : siteUpdateRow(i, text)
  \/ \E t \in Thresholds : saveThreshold(t)

SpecNew == InitNew /\ [][NextNew]_vars

----------------------------------------------------------------------------
(* Navigator: the shortlist indicators of the rows and the detail view's button *)

MaxPendingUI == 2   \* addModalNavigationUI timers pending at once

\* the jobs of the listing looked at
StarIds == { 1, 2 }

navVarsButModal == << jobLinks, currentJobIndex, isClosingModal, page, pendingOpen,
                      pendingPage, timers, notification, isEnhancing, settings, ev,
                      budget >>

\* a row as the site renders it: no class, no indicator of the extension
SiteRows == [id : StarIds, links : {1, 2}, badge : {FALSE}, days : {-1},
             marked : {FALSE}, indicators : { <<>> }]

\* the site replaces the table's rows (another page, another filter); the table
\* observer's debounce ends in enhanceJobTable
siteReplaceRows(new) ==
  /\ new # rows
  /\ rows' = new
  /\ stage' = "input"
  /\ UNCHANGED << navVars, shortVars, styleVars, labelText, key, widgets, priorityKeys,
                  fields, priorityItems, display, section, rendered, configured,
                  navSettings, navUI >>

\* the site puts another job into a row element, leaving the extension's nodes in it
sitePatchRow(i, id) ==
  /\ i \in DOMAIN rows
  /\ rows[i].id # id
  /\ rows' = [rows EXCEPT ![i].id = id]
  /\ stage' = "input"
  /\ UNCHANGED << navVars, shortVars, styleVars, labelText, key, widgets, priorityKeys,
                  fields, priorityItems, display, section, rendered, configured,
                  navSettings, navUI >>

\* the site inserts the detail container of a job (replacing an open one, whose
\* header and button go with it); the modal observer, set up once the shortlist is
\* read, arms addModalNavigationUI for 300 ms later
siteOpenView(job) ==
  /\ navUI.pending < MaxPendingUI
  /\ modal' = FreshModal(job)
  /\ navUI' = [btn |-> "none",
               pending |-> IF loaded THEN navUI.pending + 1 ELSE navUI.pending]
  /\ UNCHANGED << navVarsButModal, shortVars, styleVars, labelText, key, widgets,
                  priorityKeys, fields, priorityItems, display, section, rendered,
                  configured, navSettings, rows, stage >>

\* the site renders the posting, header included, into the open container
siteRenderView ==
  /\ modal.open
  /\ ~modal.ready
  /\ modal' = [modal EXCEPT !.ready = TRUE, !.kind = "full"]
  /\ UNCHANGED << navVarsButModal, shortVars, styleVars, labelText, key, widgets,
                  priorityKeys, fields, priorityItems, display, section, rendered,
                  configured, navSettings, rows, navUI, stage >>

\* the site removes the container
siteCloseView ==
  /\ modal.open
  /\ modal' = NoModal
  /\ navUI' = [navUI EXCEPT !.btn = "none"]
  /\ UNCHANGED << navVarsButModal, shortVars, styleVars, labelText, key, widgets,
                  priorityKeys, fields, priorityItems, display, section, rendered,
                  configured, navSettings, rows, stage >>

\* the 300 ms timer of the modal observer: addModalNavigationUI
addModalNavigationUI ==
  /\ navUI.pending > 0
  /\ navUI' = IF modal.open /\ modal.ready
              THEN [btn |-> Star(shortlistedJobs,
                                 getCurrentModalJobId(jobLinks, currentJobIndex)),
                    pending |-> navUI.pending - 1]
              ELSE [navUI EXCEPT !.pending = navUI.pending - 1]
  /\ UNCHANGED << navVars, shortVars, styleVars, labelText, key, widgets, priorityKeys,
                  fields, priorityItems, display, section, rendered, configured,
                  navSettings, rows, stage >>

\* the script has just run on a listing: the stored shortlist is still to be read,
\* the rows are still to be enhanced
InitStars ==
  /\ InitNavRest
  /\ InitFieldsIdle
  /\ InitStylesIdle
  /\ configured = Unset
  /\ navSettings = loadSettings(Unset)
  /\ \E n \in 1..MaxListed : rows \in [1..n -> SiteRows]
  /\ navUI = NoUI
  /\ shortlistedJobs = <<>>
  /\ store \in { [kind |-> "json", ids |-> <<2>>], [kind |-> "absent", ids |-> <<>>] }
  /\ loaded = FALSE
  /\ tog = NoToggle
  /\ toggles = 0

NextStars ==
  \/ loadShortlist
  \/ \E id \in StarIds, fails \in BOOLEAN : toggleShortlistJob(id, fails)
  \/ enhanceJobTable
  \/ \E n \in 1..MaxListed : \E new \in [1..n -> SiteRows] : siteReplaceRows(new)
  \/ \E i \in 1..MaxListed, id \in StarIds : sitePatchRow(i, id)
  \/ \E job \in StarIds : siteOpenView(job)
  \/ siteRenderView
  \/ siteCloseView
  \/ addModalNavigationUI

SpecStars == InitStars /\ [][NextStars]_vars

----------------------------------------------------------------------------
(* Claims *)

\* C1: whenever currentJobIndex is defined (not -1) it is a valid index into
\* jobLinks: 0 <= currentJobIndex < jobLinks.length.
C1_IndexInRange ==
  currentJobIndex # -1 => (0 <= currentJobIndex /\ currentJobIndex < Len(jobLinks))

\* C2: for each opening of the detail view (one container inserted and not yet
\* removed) the extract -> compose -> inject pipeline runs exactly once; so at no
\* moment has it run more than once on the container that is open.
C2_PipelineOncePerOpen == modal.runs <= 1

\* C3: after any sequence of pipeline runs (after a reset of the processed flag by
\* the navigator, after a settings change, ending in an early return or an
\* exception) the detail container holds at most one injected priority panel.
C3_AtMostOnePanel == modal.boxes <= 1

\* the pipeline has run a second time on the open container, which holds one panel
C3_Witness == modal.open /\ modal.runs >= 2 /\ modal.boxes = 1

\* C4: a call of enhanceModal while the open container is marked processed
\* (azureEnhanced = 'true') leaves the container as it is: no panel removed or
\* inserted, no field hidden or shown, the flag unchanged.
C4_ProcessedNoMutation ==
  [][ ( /\ ev'.op \in {"obsEnhance", "lateEnhance"}
        /\ ev'.br # "retry"
        /\ modal.open
        /\ modal.enhanced = "true" )
      => modal' = modal ]_vars

\* enhanceModal has just been called on a container that was marked processed
C4_Witness ==
  /\ ev.op \in {"obsEnhance", "lateEnhance"}
  /\ ev.br = "processed"
  /\ modal.open
  /\ modal.boxes = 1

\* C5 as stated: after two consecutive toggleShortlistJob calls with one identifier
\* the in-memory set and the persisted set both have their original membership.
C5_DoubleToggleRestoresBoth ==
  tog.n = 2 => ( /\ SeqToSet(shortlistedJobs) = tog.mem
                 /\ StoredIds(store) = tog.stored )

\* C5 amended: after two consecutive toggleShortlistJob calls with one identifier
\* the in-memory set has its original membership; the persisted set has its original
\* membership when it listed the same identifiers as the in-memory set before the
\* first call and the second call's write succeeded.
C5_DoubleToggleRestores ==
  tog.n = 2 => ( /\ SeqToSet(shortlistedJobs) = tog.mem
                 /\ (tog.wrote /\ tog.stored = tog.mem) => StoredIds(store) = tog.stored )

\* two toggles of one identifier on a loaded, non-empty shortlist, the second written
C5_Witness ==
  /\ tog.n = 2
  /\ tog.wrote
  /\ loaded
  /\ tog.mem # {}
  /\ tog.stored = tog.mem

\* C6: navigateJob(+1) from the last index of the tracked rows, with no next-page
\* control in the document, leaves currentJobIndex at the last valid index, shows
\* the 'last job' notification and arms no timer of the table-update poll.  The
\* index meant is the one navigateJob works from (re-derived from the open view).
C6_ClampAtLast ==
  [][ ( /\ ev'.op = "navigateJob"
        /\ ev'.delta = 1
        /\ Len(NavLinks) > 0
        /\ DetectIndex(NavLinks, currentJobIndex, 1) = Len(NavLinks) - 1
        /\ ~HasNext(page) )
      => /\ currentJobIndex' = Len(jobLinks') - 1
         /\ notification' = "Last job (no next page)"
         /\ \A i \in 1..Len(timers') :
              timers'[i].kind \in {"pagStart", "poll", "pollNav"}
                => (i <= Len(timers) /\ timers[i].kind = timers'[i].kind) ]_vars

\* navigateJob(+1) has just run off the last of several rows with no next page
C6_Witness ==
  /\ ev.op = "navigateJob"
  /\ ev.delta = 1
  /\ ev.br = "clamp"
  /\ Len(jobLinks) > 1
  /\ currentJobIndex = Len(jobLinks) - 1
  /\ notification = "Last job (no next page)"

\* C7: a navigation request that runs off the first or last tracked row while no
\* page control exists changes nothing besides the notification: the open detail
\* view stays open and no link activation or pipeline run is scheduled.
C7_BoundaryNoStateChange ==
  [][ (ev'.op = "navigateJob" /\ ev'.br = "clamp")
      => ( /\ modal' = modal
           /\ timers' = timers
           /\ pendingOpen' = pendingOpen
           /\ isClosingModal' = isClosingModal ) ]_vars

\* C8: when navigateJob(delta) finds newIndex within bounds, the detail view is
\* closed at once (before the delayed link activation) and the link armed for
\* activation is the one at newIndex in the tracked list, whatever the closing flag.
C8_CloseBeforeActivate ==
  [][ (ev'.op = "navigateJob" /\ ev'.br = "normal")
      => ( /\ ~modal'.open
           /\ timers'[Len(timers')].kind = "navClick"
           /\ timers'[Len(timers')].link =
                At(NavLinks, DetectIndex(NavLinks, currentJobIndex, ev'.delta)
                               + ev'.delta) ) ]_vars

\* C9: when a navigation request runs out of bounds and the page control exists,
\* the detail view is closed, the page control is activated, and once the table
\* update is detected currentJobIndex becomes 0 ('first') or the last index
\* ('last') and that row's link is activated.
C9_PaginationHandOff ==
  [][ /\ (ev'.op = "navigateJob" /\ ev'.br = "page") => ~modal'.open
      /\ ev'.op = "pagStart" => pendingPage' # 0
      /\ ev'.op = "pollNavigate"
           => ( /\ currentJobIndex' = IF ev'.br = "first" THEN 0
                                      ELSE Len(jobLinks') - 1
                /\ At(jobLinks', currentJobIndex') # 0
                /\ pendingOpen' = At(jobLinks', currentJobIndex') ) ]_vars

\* C10: a poll step that finds rows in the document reports the table as updated
\* exactly when the set of their identifiers differs from the snapshot taken before
\* the page control was activated (a proper subset of the snapshot included).
C10_PollDetectsAnyChange ==
  [][ (ev'.op = "checkForUpdate" /\ getAllJobLinks # <<>>)
      => ( ev'.br = "changed" <=> SeqToSet(getAllJobLinks) # timers[DueIndex].snap ) ]_vars

\* C11: the table-update poll is bounded by its attempt counter: a step is never
\* taken beyond attempt 30, another step is armed only below 30, and the step that
\* gives up (attempt 30, no change seen) arms nothing, activates no link, changes
\* no index and shows no notification.
C11_PollBounded ==
  [][ ev'.op = "checkForUpdate"
      => /\ ev'.delta = timers[DueIndex].att + 1
         /\ ev'.delta <= maxAttempts
         /\ ev'.br = "again" => ev'.delta < maxAttempts
         /\ ev'.br = "timeout"
              => ( /\ ev'.delta = maxAttempts
                   /\ timers' = Rest
                   /\ currentJobIndex' = currentJobIndex
                   /\ pendingOpen' = pendingOpen
                   /\ notification' = notification ) ]_vars

\* a poll has just given up at its last attempt
C11_Witness ==
  /\ ev.op = "checkForUpdate"
  /\ ev.br = "timeout"
  /\ ev.delta = maxAttempts

\* C12: the completion of a superseded poll is a no-op.  A poll is superseded when a
\* detail view opened after its request (which had closed the view) is open at its
\* completion, or when a poll requested later is pending; its completion then
\* neither activates a row link nor changes currentJobIndex.
C12_SupersededPollNoOp ==
  [][ ( /\ ev'.op = "pollNavigate"
        /\ LET t == timers[DueIndex]
           IN  \/ t.ok /\ modal.open
               \/ \E i \in 1..Len(timers) :
                    /\ timers[i].kind \in {"pagStart", "poll", "pollNav"}
                    /\ timers[i].req < t.req )
      => ( /\ currentJobIndex' = currentJobIndex
           /\ pendingOpen' = pendingOpen ) ]_vars

\* C13: while isClosingModal is set a further closeModal call (from navigateJob or
\* from a trusted Escape) does nothing: the container stays, the flag stays set and
\* no further reset timer is armed, so exactly one reset timer is pending while the
\* flag is set; an untrusted Escape keydown never reaches closeModal.
C13_CloseGuard ==
  [][ /\ (isClosingModal /\ ev'.op \in {"navigateJob", "closeModal"})
           => ( /\ modal' = modal
                /\ isClosingModal'
                /\ Len(SelectSeq(timers', LAMBDA t : t.kind = "closeReset")) = 1 )
      /\ isClosingModal
           => Len(SelectSeq(timers, LAMBDA t : t.kind = "closeReset")) = 1
      /\ ev'.op = "untrustedEscape"
           => ( /\ modal' = modal
                /\ timers' = timers
                /\ isClosingModal' = isClosingModal ) ]_vars

\* a trusted Escape has just been pressed on an open view while the flag was set
C13_Witness ==
  /\ ev.op = "closeModal"
  /\ ~ev.ok
  /\ modal.open
  /\ isClosingModal

\* C14: isEnhancing is false whenever a handler has returned, whichever way
\* enhanceModal was left (no fields, anchor not found, success, caught exception);
\* and in every reachable state a call made with the flag set would not enter the
\* parse/render section, while a call made with it clear ends with it clear.
C14_InProgressGuard ==
  /\ isEnhancing = FALSE
  /\ \A thr \in BOOLEAN :
       /\ ~enhanceModal(modal, TRUE, settings, thr).entered
       /\ enhanceModal(modal, TRUE, settings, thr).modal = modal
       /\ enhanceModal(modal, FALSE, settings, thr).isEnhancing = FALSE

\* enhanceModal has just entered its parse/render section on a rendered container
\* and left it without completing (no fields, no anchor panel, or an exception)
C14_Witness ==
  /\ ev.op \in {"obsEnhance", "lateEnhance", "navEnhance"}
  /\ ev.br = "entered"
  /\ modal.open
  /\ modal.ready
  /\ modal.enhanced # "true"
  /\ isEnhancing = FALSE

\* C15: navigation never leaves the tracker stuck: whenever isClosingModal is set it
\* is eventually false again (timers firing), and whenever a detail view is open a
\* navigation request in either direction is processed to its end, whatever the
\* flag, the page controls and the polls in flight.
C15_NeverStuck ==
  /\ isClosingModal ~> ~isClosingModal
  /\ [](modal.open /\ Idle /\ budget > 0
          => \A delta \in {-1, 1} : ENABLED navigateJob(delta))

\* after a request that was clamped at an end of the listing (and closed the view)
\* a later request has been processed and closed the view again
C15_Witness ==
  /\ ev.op = "navigateJob"
  /\ ev.br = "normal"
  /\ ev.ok
  /\ notification # "none"
  /\ isClosingModal

\* C16: on every navigation request currentJobIndex is first set to the position of
\* the (first) tracked row whose job identifier is the one the open view shows; when
\* no row matches, a cached index is kept if there is one (else the request starts
\* from the near end); newIndex is that index + delta, which is where the index and
\* the armed link end up when it is in range, while a page hand-off keeps the
\* re-derived index.
C16_IndexRederived ==
  [][ (ev'.op = "navigateJob" /\ ev'.br # "nojobs")
      => LET links    == jobLinks'
             shown    == IF modal.ready THEN modal.job ELSE 0
             matches  == { i \in 0..(Len(links) - 1) : links[i + 1] = shown }
             cur      == IF matches # {}
                         THEN CHOOSE i \in matches : \A j \in matches : i <= j
                         ELSE IF currentJobIndex >= 0 THEN currentJobIndex
                         ELSE IF ev'.delta > 0 THEN 0 ELSE Len(links) - 1
             newIndex == cur + ev'.delta
             inRange  == 0 <= newIndex /\ newIndex < Len(links)
         IN  /\ ev'.br = "normal" <=> inRange
             /\ ev'.br = "normal"
                  => (currentJobIndex' = newIndex /\ ev'.link = links[newIndex + 1])
             /\ ev'.br = "page" => currentJobIndex' = cur ]_vars

\* the first request of a session (no cached index) was navigateJob(-1) on a view
\* showing the middle one of three rows: the index went to the row before it
C16_Witness ==
  /\ ev.op = "navigateJob"
  /\ ev.delta = -1
  /\ ev.br = "normal"
  /\ budget = MaxEvents - 1
  /\ Len(jobLinks) = 3
  /\ currentJobIndex = 0

\* C17: the tracked list is rebuilt after the listing table mutates: whenever
\* jobLinks differs from the links in the listing (new page, filter change), then,
\* timers firing, it eventually equals them.
C17_LinksRebuilt ==
  (jobLinks # Rows(page)) ~> (jobLinks = Rows(page))

\* the only user event so far emptied the listing (filter change), and the table
\* observer's callback has rebuilt the tracked list
C17_Witness ==
  /\ ev.op = "enhanceJobTable"
  /\ budget = MaxEvents - 1
  /\ page.rs = "none"
  /\ jobLinks = <<>>

\* C18: once the stored shortlist has been read, a step that is not a toggle
\* (navigation request, table refresh, modal opening or closing, poll step, timer)
\* leaves the in-memory shortlist and the persisted shortlist unchanged.
C18_OnlyToggleChanges ==
  [][ (loaded /\ toggles' = toggles)
      => (shortlistedJobs' = shortlistedJobs /\ store' = store) ]_vars

\* a pagination poll has completed while the loaded shortlist held identifiers
C18_Witness ==
  /\ loaded
  /\ shortlistedJobs # <<>>
  /\ ev.op = "pollNavigate"
  /\ pendingOpen # 0

\* C19: a toggle always goes through, whether or not the write succeeds: the
\* membership of its identifier in the in-memory set is flipped (decided on the
\* in-memory set, whatever the store holds), no other membership changes, and a
\* failed write leaves the store as it was; a failed read at load (item unparseable)
\* or an absent item lets initialization go on with the in-memory set as it is.
C19_FailuresKeepMemory ==
  [][ /\ toggles' = toggles + 1
           => ( /\ Has(shortlistedJobs', tog'.id) = ~Has(shortlistedJobs, tog'.id)
                /\ \A j \in JobIds \ {tog'.id} :
                     Has(shortlistedJobs', j) = Has(shortlistedJobs, j)
                /\ ~tog'.wrote => store' = store
                /\ tog'.wrote => StoredIds(store') = SeqToSet(shortlistedJobs') )
      /\ (~loaded /\ loaded' /\ store.kind # "json")
           => shortlistedJobs' = shortlistedJobs ]_vars

\* after a toggle whose write failed the in-memory set and the store disagree
C19_Witness ==
  /\ loaded
  /\ tog.n >= 1
  /\ ~tog.wrote
  /\ SeqToSet(shortlistedJobs) # StoredIds(store)

\* C20: a change of the rearranger settings triggers a full re-run of the pipeline:
\* when a detail view is open and already processed at the time of the change, the
\* run armed by the re-initialization (rearranger enabled, the same container still
\* open) goes through extraction, composition and injection again.
C20_SettingsRerun ==
  [][ ( /\ ev'.op = "lateEnhance"
        /\ timers[DueIndex].pos = "initProcessed"
        /\ settings.enabled )
      => modal'.runs = modal.runs + 1 ]_vars

\* C28 (as stated): for every label of the dictionary, getLabelKey returns the
\* label's documented key whatever whitespace surrounds it, whatever its letter case,
\* and with or without a trailing colon, the colon possibly added after trailing
\* whitespace.
C28_ExactAnyDecoration ==
  \A pt \in Patterns :
    (stage = "done" /\ Len(labelText) >= Len(pt) /\ labelText \in DecoratedLoosely(pt))
    => key = KeyOf(pt)

\* C28 (amended): for every label of the dictionary, getLabelKey returns the label's
\* documented key whatever whitespace surrounds it, whatever its letter case, and
\* with or without a trailing colon that directly follows the label.
C28_ExactDecorated ==
  \A pt \in Patterns :
    ( /\ stage = "done"
      /\ Len(labelText) >= Len(pt)
      /\ Len(labelText) <= Len(pt) + 1 + 2 * MaxPad
      /\ labelText \in Decorated(pt) )
    => key = KeyOf(pt)

\* a dictionary label in another letter case, with a colon and whitespace on both
\* sides, has been resolved
C28_Witness ==
  /\ stage = "done"
  /\ \E pt \in Patterns :
       /\ Len(labelText) = Len(pt) + 1 + 2 * MaxPad
       /\ labelText \in Decorated(pt)
       /\ labelText # toLowerCase(labelText)
       /\ key = KeyOf(pt)

\* C29: when the normalized label is not a dictionary label, getLabelKey returns the
\* key of the first entry, in table order, that contains the normalized label or is
\* contained in it, never the key of a later one.
C29_FirstPartialWins ==
  (stage = "done" /\ Normalize(labelText) \notin Patterns)
  => \A i \in 1..Len(LABEL_TO_KEY) :
       ( /\ PartialMatch(Normalize(labelText), LABEL_TO_KEY[i].pattern)
         /\ \A j \in 1..(i - 1) :
              ~PartialMatch(Normalize(labelText), LABEL_TO_KEY[j].pattern) )
       => key = LABEL_TO_KEY[i].key

\* a label without exact hit that two entries with different keys match has been
\* resolved to the key of the earlier one
C29_Witness ==
  /\ stage = "done"
  /\ Normalize(labelText) \notin Patterns
  /\ \E i, j \in 1..Len(LABEL_TO_KEY) :
       /\ i < j
       /\ PartialMatch(Normalize(labelText), LABEL_TO_KEY[i].pattern)
       /\ PartialMatch(Normalize(labelText), LABEL_TO_KEY[j].pattern)
       /\ LABEL_TO_KEY[i].key # LABEL_TO_KEY[j].key
       /\ key = LABEL_TO_KEY[i].key

\* C30: for every label that is not a dictionary label and neither contains a
\* dictionary entry nor is contained in one, getLabelKey returns null.
C30_UnknownIsNull ==
  ( /\ stage = "done"
    /\ \A i \in 1..Len(LABEL_TO_KEY) :
         ~PartialMatch(Normalize(labelText), LABEL_TO_KEY[i].pattern) )
  => key = null

\* position of a key in a list of keys, 0 if it is not there
PositionIn(keys, k) ==
  IF \E i \in 1..Len(keys) : keys[i] = k
  THEN CHOOSE i \in 1..Len(keys) : keys[i] = k /\ \A j \in 1..(i - 1) : keys[j] # k
  ELSE 0

\* the orderings of a list
Reorderings(keys) ==
  { [i \in 1..Len(keys) |-> keys[pi[i]]] : pi \in Permutations(1..Len(keys)) }

\* the items come in the fixed order of the checks
InFixedOrder(items) ==
  \A i, j \in 1..Len(items) :
    i < j => PositionIn(RecognizedKeys, items[i].key) < PositionIn(RecognizedKeys, items[j].key)

\* C23 (as stated): createPriorityBox outputs its items in the fixed order duration,
\* location, compensation, deadline, method, external_url; reordering the priority-key
\* list never changes the output; and no item is output whose key is not in the list.
C23_FixedOrderEveryKeyGated ==
  stage = "done"
  => /\ InFixedOrder(priorityItems)
     /\ \A q \in Reorderings(priorityKeys) :
          createPriorityBox(fields, q, settings.enabled) = priorityItems
     /\ \A i \in 1..Len(priorityItems) :
          priorityItems[i].key \in SeqToSet(priorityKeys)

\* C23 (amended): createPriorityBox outputs its items in the fixed order; reordering
\* the priority-key list never changes the output; no duration, location,
\* compensation, deadline or method item is output whose key is not in the list, and
\* no external_url item is output unless method is in the list.
C23_FixedOrderGated ==
  stage = "done"
  => /\ InFixedOrder(priorityItems)
     /\ \A q \in Reorderings(priorityKeys) :
          createPriorityBox(fields, q, settings.enabled) = priorityItems
     /\ \A i \in 1..Len(priorityItems) :
          IF priorityItems[i].key = "external_url"
          THEN "method" \in SeqToSet(priorityKeys)
          ELSE priorityItems[i].key \in SeqToSet(priorityKeys)

\* a list of two keys given against the fixed order has produced both items, while a
\* field whose key is not in the list is there
C23_Witness ==
  /\ stage = "done"
  /\ Len(priorityKeys) = 2
  /\ PositionIn(RecognizedKeys, priorityKeys[1]) > PositionIn(RecognizedKeys, priorityKeys[2])
  /\ Len(priorityItems) = 2
  /\ \E k \in DOMAIN fields : k \in SeqToSet(RecognizedKeys) \ SeqToSet(priorityKeys)

\* C24: for any two output items whose keys are both in the priority-key list, the
\* item whose key comes earlier in the list comes earlier in the output.
C24_ListOrder ==
  stage = "done"
  => \A i, j \in 1..Len(priorityItems) :
       ( /\ PositionIn(priorityKeys, priorityItems[i].key) # 0
         /\ PositionIn(priorityKeys, priorityItems[j].key) # 0
         /\ PositionIn(priorityKeys, priorityItems[i].key)
              < PositionIn(priorityKeys, priorityItems[j].key) )
       => i < j

\* the location items of an output
LocationItems(items) == SelectSeq(items, LAMBDA it : it.key = "location")

\* C25: with location in the list, there is one location item whose value is the
\* city and province values joined by ", " when either field is present, otherwise
\* one whose value is the region field's, and none when none of the three exists
\* (looked at for postings in which one of the three fields has text).
C25_Location ==
  ( /\ stage = "done"
    /\ settings.enabled
    /\ "location" \in SeqToSet(priorityKeys)
    /\ \E k \in { "city", "province", "location" } :
         Present(fields, k) /\ fields[k].value # <<>> )
  => LET loc == LocationItems(priorityItems)
         city == Present(fields, "city")
         province == Present(fields, "province")
     IN  IF city /\ province
         THEN /\ Len(loc) = 1
              /\ loc[1].value = fields["city"].value \o <<",", " ">> \o fields["province"].value
         ELSE IF city
         THEN Len(loc) = 1 /\ loc[1].value = fields["city"].value
         ELSE IF province
         THEN Len(loc) = 1 /\ loc[1].value = fields["province"].value
         ELSE IF Present(fields, "location")
         THEN Len(loc) = 1 /\ loc[1].value = fields["location"].value
         ELSE loc = <<>>

\* the method value is the trivial default: trimmed and in lower case it is exactly
\* "waterlooworks", or it is empty
Trivial(value) ==
  \/ toLowerCase(trim(value)) = waterlooworks
  \/ trim(value) = <<>>

\* C26: if the method field's value is the trivial default, the output has neither a
\* method item nor an external_url item, even if an external URL field exists.
C26_TrivialMethodOmitted ==
  (stage = "done" /\ Present(fields, "method") /\ Trivial(fields["method"].value))
  => \A i \in 1..Len(priorityItems) :
       priorityItems[i].key \notin { "method", "external_url" }

\* a posting whose method is the host site, written with capitals or with spaces
\* around it, and which has an external URL, has been composed with method in the
\* list, and other items were output
C26_Witness ==
  /\ stage = "done"
  /\ "method" \in SeqToSet(priorityKeys)
  /\ Present(fields, "method")
  /\ fields["method"].value \notin { <<>>, waterlooworks }
  /\ Trivial(fields["method"].value)
  /\ Present(fields, "external_url")
  /\ fields["external_url"].value # <<>>
  /\ priorityItems # <<>>

\* every external_url item directly follows the method item
UrlFollowsMethod(items) ==
  \A j \in 1..Len(items) :
    items[j].key = "external_url" => (j > 1 /\ items[j - 1].key = "method")

\* the method item directly followed by the external_url item, flagged as a link
MethodThenUrl(items) ==
  \E i \in 1..(Len(items) - 1) :
    /\ items[i].key = "method"
    /\ items[i + 1].key = "external_url"
    /\ items[i + 1].isLink

\* C27 (as stated): if the method value is not the trivial default, method is in the
\* list and an external_url field exists, the output has a method item immediately
\* followed by an external_url item flagged as a link; and an external_url item never
\* appears without the method item directly before it.
C27_MethodWithUrl ==
  stage = "done"
  => /\ ( /\ settings.enabled
          /\ "method" \in SeqToSet(priorityKeys)
          /\ Present(fields, "method")
          /\ ~Trivial(fields["method"].value)
          /\ Present(fields, "external_url") )
        => MethodThenUrl(priorityItems)
     /\ UrlFollowsMethod(priorityItems)

\* C27 (amended): if the method value is not empty and does not contain
\* "waterlooworks" (in any letter case), method is in the list and an external_url
\* field with a non-empty value exists, the output has a method item immediately
\* followed by an external_url item flagged as a link; and an external_url item never
\* appears without the method item directly before it.
C27_MethodWithNonEmptyUrl ==
  stage = "done"
  => /\ ( /\ settings.enabled
          /\ "method" \in SeqToSet(priorityKeys)
          /\ Present(fields, "method")
          /\ trim(fields["method"].value) # <<>>
          /\ ~includes(toLowerCase(fields["method"].value), waterlooworks)
          /\ Present(fields, "external_url")
          /\ fields["external_url"].value # <<>> )
        => MethodThenUrl(priorityItems)
     /\ UrlFollowsMethod(priorityItems)

\* a posting to apply for by e-mail, with an external URL, has been composed with
\* method in the list and the two items were output after another item
C27_Witness ==
  /\ stage = "done"
  /\ Len(priorityItems) >= 3
  /\ priorityItems[Len(priorityItems) - 1].key = "method"
  /\ priorityItems[Len(priorityItems)].key = "external_url"
  /\ priorityItems[Len(priorityItems)].isLink

\* the canonical key a widget resolves to, null if the extractor passes it over
WidgetKey(w) ==
  IF w.label.isNull \/ LabelTextOf(w) = <<>> THEN null ELSE getLabelKey(LabelTextOf(w))

\* C21: after the panel is inserted, the element recorded for every key of the
\* priority list is hidden, the city, province, country, address and postal elements
\* are hidden when location is in the list, and the deadline, method and external_url
\* elements are hidden whenever present.
C21_SupersededHidden ==
  (stage = "done" /\ priorityItems # <<>> /\ \E i \in DOMAIN section : section[i] = "box")
  => /\ \A k \in DOMAIN fields :
          k \in SeqToSet(priorityKeys) => display[fields[k].element] = "none"
     /\ \A k \in DOMAIN fields :
          ("location" \in SeqToSet(priorityKeys) /\ k \in SeqToSet(locationKeys))
          => display[fields[k].element] = "none"
     /\ \A k \in DOMAIN fields :
          k \in {"deadline", "method", "external_url"}
          => display[fields[k].element] = "none"

\* C22: within one extraction pass the field recorded for a key (label, value and
\* owner element) is that of the first widget, in document order, that resolves to
\* the key.
C22_FirstMatchWins ==
  stage = "done"
  => \A i \in 1..Len(widgets) :
       ( /\ WidgetKey(widgets[i]) # null
         /\ \A j \in 1..(i - 1) : WidgetKey(widgets[j]) # WidgetKey(widgets[i]) )
       => /\ WidgetKey(widgets[i]) \in DOMAIN fields
          /\ fields[WidgetKey(widgets[i])] =
               [label |-> LabelTextOf(widgets[i]), value |-> ValueOf(widgets[i]),
                element |-> widgets[i].element]

\* C31: a field labelled compensation, salary, pay or benefits is resolved to the
\* compensation key, and a field labelled deadline, apply by or due date to the
\* deadline key.
C31_Synonyms ==
  stage = "done"
  => /\ Normalize(labelText) \in CompensationLabels => key = "compensation"
     /\ Normalize(labelText) \in DeadlineLabels => key = "deadline"

\* the handlers that call enhanceModal
EnhanceOps == { "obsEnhance", "lateEnhance", "navEnhance" }

\* C32: a pass on a container without 'Job Posting Information' panel inserts no
\* panel, hides no field, removes nothing and does not mark the view processed; and
\* once a pass has ended there, the navigator's call after a navigation makes no
\* further pass on the same container.
C32_AnchorNotFound ==
  [][ /\ ( /\ ev'.op \in EnhanceOps
           /\ ev'.br = "entered"
           /\ modal.kind = "noAnchor" )
         => /\ modal'.boxes = modal.boxes
            /\ modal'.hidden = modal.hidden
            /\ modal'.enhanced # "true"
      /\ (ev'.op = "navEnhance" /\ ev'.br = "entered") => ~modal.aborted ]_vars

\* C33: when a panel is inserted into a section whose heading is one of the section's
\* children, the panel is the node right after the heading, wherever the heading sits
\* among the children.
C33_PanelAfterHeading ==
  ( /\ stage = "done"
    /\ priorityItems # <<>>
    /\ \E i \in DOMAIN section : section[i] = "h4" )
  => \E i \in 1..(Len(section) - 1) : section[i] = "h4" /\ section[i + 1] = "box"

\* schemes of the links a posting may give
RecognizedSchemes == { <<"h","t","t","p">>, <<"h","t","t","p","s">> }

\* the least an absolute URL of a recognized scheme has: the scheme and its colon
HasRecognizedScheme(value) ==
  \E scheme \in RecognizedSchemes : startsWith(toLowerCase(value), scheme \o <<":">>)

\* C34: an anchor is rendered only for a link-flagged item whose value is an absolute
\* URL of a recognized scheme; the anchor's target is the whole value and its text the
\* first 50 characters plus '...' when the value is longer, else the value; any other
\* item is the value as plain text.
C34_LinkRendering ==
  stage = "done" =>
    \A i \in DOMAIN rendered :
      /\ rendered[i].tag = "a" =>
           /\ priorityItems[i].isLink
           /\ HasRecognizedScheme(priorityItems[i].value)
           /\ rendered[i].href = priorityItems[i].value
           /\ rendered[i].text =
                IF Len(priorityItems[i].value) > LinkTextMax
                THEN SubSeq(priorityItems[i].value, 1, LinkTextMax) \o <<".", ".", ".">>
                ELSE priorityItems[i].value
      /\ rendered[i].tag # "a" => rendered[i].text = priorityItems[i].value

\* the elements carrying an id
WithId(id) == { i \in 1..Len(styles) : styles[i].id = id }

\* C35: for every id that injection calls were made with, the document holds exactly
\* one element with that id, and it carries what the most recent call gave: the href
\* of an injectStylesheet call, the CSS text of an injectStyles call.
C35_OneElementLatestCall ==
  \A id \in ElementIds :
    calls[id].fn # "none" =>
      /\ Cardinality(WithId(id)) = 1
      /\ \A i \in WithId(id) :
           /\ calls[id].fn = "injectStylesheet" => styles[i].href = calls[id].arg
           /\ calls[id].fn = "injectStyles" => styles[i].textContent = calls[id].arg

\* a step of enhanceJobTable
EnhanceStep == stage' = "done" /\ configured' = configured

PanelInserted == \E i \in DOMAIN section : section[i] = "box"

\* keys whose elements are hidden whatever the priority list says, and the location's
\* constituents
HiddenAnyway == { "deadline", "method", "external_url" } \cup SeqToSet(locationKeys)

\* C37: when a pass hides the element of a key of the priority list (other than the
\* location constituents and deadline / method / external_url), the panel it inserted
\* has an item for that key; and a pass that inserts no panel hides no element.
C37_NothingLostByHiding ==
  stage = "done" =>
    /\ \A k \in DOMAIN fields :
         ( /\ k \in SeqToSet(priorityKeys) \ HiddenAnyway
           /\ display[fields[k].element] = "none" )
         => /\ PanelInserted
            /\ \E i \in DOMAIN priorityItems : priorityItems[i].key = k
    /\ ~PanelInserted => \A e \in DOMAIN display : display[e] # "none"

\* no timer is pending and no activation or page load is under way
Quiescent == timers = <<>> /\ pendingOpen = 0 /\ pendingPage = 0

\* the handlers that activate a row link
ClickOps == { "navClick", "pollNavigate", "selectAndOpenJob" }

\* C38: once all pending timers have fired, the row at currentJobIndex in the listing
\* is the row of the job the open detail view shows; and every link a handler
\* activates is a link of the listing as it is at that moment.
C38_IndexAndLinksCurrent ==
  [][ /\ (Quiescent' /\ modal'.open /\ modal'.ready)
         => /\ 0 <= currentJobIndex'
            /\ currentJobIndex' < Len(Rows(page'))
            /\ Rows(page')[currentJobIndex' + 1] = modal'.job
      /\ (ev'.op \in ClickOps /\ ev'.link # 0)
         => ev'.link \in SeqToSet(Rows(page)) ]_vars

\* C39: a toggle changes the membership of its own identifier only: every other
\* identifier is in the in-memory set, and in the persisted set, after the toggle
\* exactly when it was before, also when the toggle comes before the stored
\* shortlist has been read.
C39_ToggleTouchesOneId ==
  [][ toggles' = toggles + 1
      => \A j \in JobIds \ {tog'.id} :
           /\ Has(shortlistedJobs', j) = Has(shortlistedJobs, j)
           /\ (j \in StoredIds(store')) = (j \in StoredIds(store)) ]_vars

\* C40: when no table refresh and no addModalNavigationUI timer is pending, every
\* shortlist indicator of the listing belongs to its row's job and shows the filled
\* star exactly when that job is in the in-memory shortlist, the detail view's
\* shortlist button shows the filled star exactly when the job shown is in it, and
\* no row has more than one indicator.
C40_StarsMatchShortlist ==
  (stage = "done" /\ navUI.pending = 0)
  => /\ \A i \in DOMAIN rows :
          /\ Len(rows[i].indicators) <= 1
          /\ \A k \in DOMAIN rows[i].indicators :
               /\ rows[i].indicators[k].jobId = rows[i].id
               /\ (rows[i].indicators[k].star = "filled")
                    <=> Has(shortlistedJobs, rows[i].id)
     /\ navUI.btn # "none"
          => ( /\ modal.open
               /\ (navUI.btn = "filled") <=> Has(shortlistedJobs, modal.job) )

\* after toggles, the refreshed row of a shortlisted job (two links in it) and the
\* button of the open view of that job both show the filled star
C40_Witness ==
  /\ stage = "done"
  /\ navUI.pending = 0
  /\ toggles >= 2
  /\ navUI.btn = "filled"
  /\ \E i \in DOMAIN rows :
       /\ rows[i].links = 2
       /\ rows[i].id = modal.job
       /\ rows[i].indicators # <<>>
       /\ rows[i].indicators[1].star = "filled"

====
